---- MODULE Spec2Model ----
(***************************************************************************)
(* A model of the loopback driver of uefi-toys (loopdrv): the firmware's   *)
(* handle database as the driver uses it, the multi-protocol install and   *)
(* uninstall helpers, the loop controller with its child list, and the     *)
(* per-child loopback device (media descriptor, mapping table, block I/O). *)
(*                                                                         *)
(* Three specifications share the variables:                               *)
(*   SpecProto  install_multiple_protocols / uninstall_multiple_protocols  *)
(*              applied to inputs drawn by Init;                           *)
(*   SpecCtl    the loop controller and its children;                      *)
(*   SpecDev    one loopback device and its block I/O.                     *)
(***************************************************************************)
EXTENDS Integers, Sequences, FiniteSets, TLC

VARIABLES
    protos,      \* firmware handle database: handle -> set of <<guid, interface>>
    pt,          \* SpecProto: the call under test and its outcome
    loop_list,   \* ControlContext.loop_list: sequence of [unit, handle]
    ctxs,        \* heap: child handle -> LoopContext allocation (or none / freed)
    opened,      \* child handles holding a by-child-controller open of the bus
    ctl,         \* "installed" | "unloaded" | "panicked": the controller's life
    ret,         \* outcome of the last controller call
    dev,         \* SpecDev: the LoopContext of the device under test
    fsok,        \* SpecDev: the filesystem interface still is the cached one
    io,          \* SpecDev: outcome of the last device call
    pools,       \* heap: pool payload pointer -> the pool alloc_pool handed out
    cleared,     \* clear was called and no setter has returned SUCCESS since
    overflow_checks, \* the build panics on integer overflow (else it wraps)
    plan,        \* SpecAttach: lopatch's attach_loop_device, its inputs and locals
    split,       \* SpecSplit: a shell-split Split over one command line
    iso          \* SpecIso: lopatch's ISO9660 reader over one image

vars == <<protos, pt, loop_list, ctxs, opened, ctl, ret, dev, fsok, io, pools, cleared,
          overflow_checks, plan, split, iso>>
ptVars == <<pt>>
ctlVars == <<loop_list, ctxs, opened, ctl, ret>>
devVars == <<dev, fsok, io, pools, cleared, overflow_checks>>
appVars == <<plan, split, iso>>

----------------------------------------------------------------------------
(* Bounds of the model. *)

MaxHandles == 2     \* child handles the firmware can hand out
MaxUnit == 2        \* explicit unit numbers passed to add: 0..MaxUnit
MaxPairs == 3       \* longest (guid, interface) list in SpecProto
MaxFaults == 2      \* firmware calls that may fail within one driver call
MaxStop == 2        \* longest child array passed to driver-binding stop
MaxActivations == 1 \* media activations per child in SpecCtl
MediaIdBits == 2    \* modelled width of the u32 media_id
WordBits == 12      \* modelled width of the u64 sector and byte counts
MaxItems == 2       \* longest table passed to set_mapping_table
MaxPools == 2       \* pools alloc_pool hands out in one run
MaxMedia == 2       \* SpecIo: media activations in one run
MaxRecords == 2     \* SpecAttach: directory records the walk of the image visits
MaxChars == 4       \* SpecSplit: longest command line, in elements
MaxNones == 2       \* SpecSplit: calls of next() that return None
MaxDescriptors == 2 \* SpecIso: volume descriptors of the image, from block 16
MaxBlocks == 2      \* SpecIso: blocks of the directory the walk reads

(* Program constants. *)

NullHandle == 0     \* a null RawHandle / Option<Handle>::None
SECTOR_SIZE == 512
U32Max == 2147483647   \* stands for u32::MAX: the unit number checked_add refuses

ChildHandles == 1..MaxHandles
BusHandle == MaxHandles + 1
Handles == ChildHandles \cup {BusHandle}
Units == 0..MaxUnit

Guids == {"DEVICE_PATH", "LOOP", "BLOCK_IO"}
NoPair == <<"NONE", 0>>

Last(s) == s[Len(s)]
Front(s) == SubSeq(s, 1, Len(s) - 1)
Range(s) == {s[i] : i \in 1..Len(s)}

\* Evaluates Body on the value v: a local binding whose value is written once.
With(v, Body(_)) == Body(v)

----------------------------------------------------------------------------
(* The firmware's boot services, as far as the driver calls them.  A fault *)
(* set F names the single-interface calls the firmware refuses during one  *)
(* driver call: <<"install", guid>> or <<"uninstall", guid>>.              *)

MpFaultPoints == {"install", "uninstall"} \X Guids
MpFaultSets == {F \in SUBSET MpFaultPoints : Cardinality(F) <= MaxFaults}
\* <<"open", "LOOP_CONTROL">>: opening the bus by child controller fails;
\* <<"get", "LOOP">>: looking up the child's loopback interface fails.
FaultPoints == MpFaultPoints \cup {<<"open", "LOOP_CONTROL">>, <<"get", "LOOP">>}
\* The fault sets tried on a call that creates a child: none, each install
\* refused, the open of the bus refused, and the double faults that make the
\* rollback fail too.
AddFaultSets ==
    {{}} \cup {{<<"install", g>>} : g \in Guids} \cup {{<<"open", "LOOP_CONTROL">>}}
    \cup {{<<"install", "BLOCK_IO">>, <<"uninstall", "DEVICE_PATH">>},
          {<<"open", "LOOP_CONTROL">>, <<"uninstall", "LOOP">>}}
\* The fault sets tried on a remove: none, the lookup refused, each uninstall
\* refused, and a refused uninstall whose rollback or re-open fails too.
RemoveFaultSets ==
    {{}} \cup {{<<"uninstall", g>>} : g \in Guids} \cup {{<<"get", "LOOP">>}}
    \cup {{<<"uninstall", "DEVICE_PATH">>, <<"install", "LOOP">>},
          {<<"uninstall", "DEVICE_PATH">>, <<"open", "LOOP_CONTROL">>}}

\* The handle the firmware creates for an install on no handle: the lowest unused.
FwFreshHandle(db) ==
    IF \E h \in ChildHandles : db[h] = {}
    THEN CHOOSE h \in ChildHandles :
            db[h] = {} /\ \A k \in ChildHandles : db[k] = {} => h <= k
    ELSE NullHandle

\* bt.install_protocol_interface(handle, protocol, interface)
FwInstall(db, handle, pair, F) ==
    LET target == IF handle = NullHandle THEN FwFreshHandle(db) ELSE handle
    IN  IF <<"install", pair[1]>> \in F \/ target = NullHandle
        THEN [ok |-> FALSE, status |-> "OUT_OF_RESOURCES", db |-> db, handle |-> handle]
        ELSE IF (handle # NullHandle /\ db[handle] = {})
                \/ \E p \in db[target] : p[1] = pair[1]
        THEN [ok |-> FALSE, status |-> "INVALID_PARAMETER", db |-> db, handle |-> handle]
        ELSE [ok |-> TRUE, status |-> "SUCCESS",
              db |-> [db EXCEPT ![target] = @ \cup {pair}], handle |-> target]

\* bt.uninstall_protocol_interface(handle, protocol, interface); a handle that
\* loses its last interface ceases to exist (its set becomes empty).
FwUninstall(db, handle, pair, F) ==
    IF pair \notin db[handle]
    THEN [ok |-> FALSE, status |-> "NOT_FOUND", db |-> db]
    ELSE IF <<"uninstall", pair[1]>> \in F
    THEN [ok |-> FALSE, status |-> "ACCESS_DENIED", db |-> db]
    ELSE [ok |-> TRUE, status |-> "SUCCESS", db |-> [db EXCEPT ![handle] = @ \ {pair}]]

----------------------------------------------------------------------------
(* install_multiple_protocols / uninstall_multiple_protocols.              *)
(* A result is [st, status, db, handle, failed]: st is "ok", "err" (the    *)
(* call returned Err(status, failed)) or "panic" (an unwrap() of a failed  *)
(* rollback).                                                              *)

MpResult(st, status, db, handle, failed) ==
    [st |-> st, status |-> status, db |-> db, handle |-> handle, failed |-> failed]

RECURSIVE install_multiple_protocols(_, _, _, _)
RECURSIVE uninstall_multiple_protocols(_, _, _, _)

\* A rollback that forgets the interfaces already installed.
InstallRollbackNone(db, handle, done, F) ==
    MpResult("ok", "SUCCESS", db, handle, NoPair)

\* mod.rs:129-131: on a failed install, uninstall what this call installed.
InstallRollback(db, handle, done, F) ==
    IF handle # NullHandle
    THEN uninstall_multiple_protocols(db, handle, done, F)
    ELSE MpResult("ok", "SUCCESS", db, handle, NoPair)

\* A rollback that forgets the interfaces already removed.
UninstallRollbackNone(db, handle, done, F) ==
    MpResult("ok", "SUCCESS", db, handle, NoPair)

\* mod.rs:153: on a failed uninstall, install again what this call removed.
UninstallRollback(db, handle, done, F) ==
    install_multiple_protocols(db, handle, done, F)

install_multiple_protocols(db, handle, pairs, F) ==
    IF pairs = <<>> THEN MpResult("ok", "SUCCESS", db, NullHandle, NoPair)
    ELSE
    LET curr == Last(pairs)
        init == Front(pairs)
        r == IF init # <<>>
             THEN install_multiple_protocols(db, handle, init, F)
             ELSE MpResult("ok", "SUCCESS", db, handle, NoPair)
    IN  IF r.st # "ok" THEN r
        ELSE
        LET res == FwInstall(r.db, r.handle, curr, F)
        IN  IF res.ok THEN MpResult("ok", "SUCCESS", res.db, res.handle, NoPair)
            ELSE With(InstallRollback(r.db, r.handle, init, F), LAMBDA u :
                IF u.st = "ok"
                THEN MpResult("err", res.status, u.db, r.handle, curr)
                ELSE MpResult("panic", u.status, u.db, r.handle, u.failed))

uninstall_multiple_protocols(db, handle, pairs, F) ==
    IF pairs = <<>> THEN MpResult("ok", "SUCCESS", db, handle, NoPair)
    ELSE
    LET curr == Head(pairs)
        rest == Tail(pairs)
        r == IF rest # <<>>
             THEN uninstall_multiple_protocols(db, handle, rest, F)
             ELSE MpResult("ok", "SUCCESS", db, handle, NoPair)
    IN  IF r.st # "ok" THEN r
        ELSE
        LET res == FwUninstall(r.db, handle, curr, F)
        IN  IF res.ok THEN MpResult("ok", "SUCCESS", res.db, handle, NoPair)
            ELSE With(UninstallRollback(r.db, handle, rest, F), LAMBDA i :
                IF i.st = "ok"
                THEN MpResult("err", res.status, i.db, handle, curr)
                ELSE MpResult("panic", i.status, i.db, handle, i.failed))

----------------------------------------------------------------------------
(* SpecProto: the two helpers applied once to an input drawn by Init: a    *)
(* handle database in which handle 1 carries some interfaces, a target     *)
(* handle (none, handle 1, or handle 2 which does not exist), a list of    *)
(* pairs and a fault set.  Every caller in the driver installs interfaces  *)
(* that are not on the target yet (mod.rs:75, mod.rs:153,                  *)
(* loopback/mod.rs:151), so Init draws install inputs that way.            *)

PtPairs == Guids \X {0}
PtPresent == {S \in SUBSET (Guids \X {0, 1}) :
                \A p, q \in S : p[1] = q[1] => p = q}
PtTargets == {NullHandle, 1, 2}

RECURSIVE SeqsUpTo(_, _)
SeqsUpTo(S, n) ==
    IF n = 0 THEN {<<>>}
    ELSE LET shorter == SeqsUpTo(S, n - 1)
         IN  shorter \cup {Append(s, x) : s \in {t \in shorter : Len(t) = n - 1}, x \in S}

NoDb == [h \in Handles |-> {}]

PtIdle == [phase |-> "idle", op |-> "none", handle |-> NullHandle, pairs |-> <<>>,
           F |-> {}, before |-> NoDb, st |-> "none", status |-> "none",
           failed |-> NoPair, out |-> NullHandle]

PtInstall ==
    /\ pt.phase = "call" /\ pt.op = "install"
    /\ LET r == install_multiple_protocols(protos, pt.handle, pt.pairs, pt.F)
       IN  /\ protos' = r.db
           /\ pt' = [pt EXCEPT !.phase = "done", !.st = r.st, !.status = r.status,
                               !.failed = r.failed, !.out = r.handle]
    /\ UNCHANGED <<ctlVars, devVars, appVars>>

PtUninstall ==
    /\ pt.phase = "call" /\ pt.op = "uninstall"
    /\ LET r == uninstall_multiple_protocols(protos, pt.handle, pt.pairs, pt.F)
       IN  /\ protos' = r.db
           /\ pt' = [pt EXCEPT !.phase = "done", !.st = r.st, !.status = r.status,
                               !.failed = r.failed, !.out = r.handle]
    /\ UNCHANGED <<ctlVars, devVars, appVars>>

----------------------------------------------------------------------------
(* The loopback device: LoopContext with its BlockIoMedia and table.       *)
(* Sector counts are u64 in the code; the model keeps WordBits bits of     *)
(* them.  An overflowing operation panics in a build with overflow checks  *)
(* and wraps in a build without (`checked` tells which build runs).  A     *)
(* device operation on the context c and the pools P returns               *)
(* [st, status, c, P]: st is "ok" (the call returned status) or "panic".   *)

MediaIdMod == 2 ^ MediaIdBits
U64Mod == 2 ^ WordBits

AddU64(a, b) == [ovf |-> a + b >= U64Mod, v |-> (a + b) % U64Mod]
SubU64(a, b) == [ovf |-> a < b, v |-> (a - b + U64Mod) % U64Mod]
MulU64(a, b) == [ovf |-> a * b >= U64Mod, v |-> (a * b) % U64Mod]

\* The pools handed out by alloc_pool, by payload pointer.  A pool is
\* [state, owner, size, data]: state "none" (not allocated), "held" (allocated,
\* the payload pointer is with the caller), "boxed" (a Box<Pool> made by
\* boxed_from_data_ptr owns it) or "freed"; owner is the unit number of the
\* LoopContext its header names; size is the payload size in bytes; data holds
\* one value per payload sector.
PoolIds == 1..MaxPools
\* A payload pointer that is not aligned to POOL_ALIGN.
MisalignedPtr == MaxPools + 1
\* What a sector holds: zeroes, what the allocator left in a new pool, what a
\* caller's read buffer held before the read.
ZeroData == 0
Uninit == -1
Stale == -2
NoPool == [state |-> "none", owner |-> 0, size |-> 0, data |-> <<>>]
NoPools == [p \in PoolIds |-> NoPool]

\* The pools a table's items refer to
TablePools(table) ==
    {table[i].target.id : i \in {j \in 1..Len(table) : /\ table[j].target.kind = "LoopPool"
                                                       /\ table[j].target.id \in PoolIds}}

\* Pool::boxed_from_data_ptr: the Box takes the pool over
BoxPools(P, S) == [p \in PoolIds |-> IF p \in S THEN [P[p] EXCEPT !.state = "boxed"] ELSE P[p]]
\* drop(Box<Pool>): dealloc; nothing of the pool is left.
FreedPool == [state |-> "freed", owner |-> 0, size |-> 0, data |-> <<>>]
DropPools(P, S) == [p \in PoolIds |-> IF p \in S THEN FreedPool ELSE P[p]]

DevResult(st, status, c, P) == [st |-> st, status |-> status, c |-> c, P |-> P]

\* The files the file system holds, by id, with their sizes in bytes: file 1
\* has two sectors, file 2 less than one.  NoFile is a path that does not open.
NoFile == 0
FileSizes == <<2 * SECTOR_SIZE, SECTOR_SIZE \div 2>>
FileIds == 1..Len(FileSizes)
\* What sector s of file f holds
FileData(f, s) == 10 * f + s

\* block_io.rs create_default_media and loopback/mod.rs install_loopback's Box::new
NewLoopContext(unit_number) ==
    [unit_number |-> unit_number, media_id |-> 0, media_present |-> FALSE,
     read_only |-> TRUE, block_size |-> SECTOR_SIZE, last_block |-> 0, table |-> <<>>]

\* LoopContext::is_free
is_free(c) == ~c.media_present

ZeroItem(start_sector, num_sectors) ==
    [start_sector |-> start_sector, num_sectors |-> num_sectors,
     target |-> [kind |-> "Zero", id |-> 0], target_start_sector |-> 0]

FileItem(file, start_sector, num_sectors, target_start_sector) ==
    [start_sector |-> start_sector, num_sectors |-> num_sectors,
     target |-> [kind |-> "File", id |-> file], target_start_sector |-> target_start_sector]

PoolItem(buffer, start_sector, num_sectors, target_start_sector) ==
    [start_sector |-> start_sector, num_sectors |-> num_sectors,
     target |-> [kind |-> "LoopPool", id |-> buffer],
     target_start_sector |-> target_start_sector]

\* get_file_info: the status of opening the file and its size
get_file_info(file) ==
    IF file \in FileIds THEN [status |-> "SUCCESS", size |-> FileSizes[file]]
    ELSE [status |-> "NOT_FOUND", size |-> 0]

\* the closure validate_target_size of from_loop_mapping_item: "ok", "small" or "panic"
validate_target_size(item, size, checked) ==
    With(SubU64(size \div SECTOR_SIZE, item.target_start_sector), LAMBDA d :
        IF d.ovf /\ checked THEN "panic"
        ELSE IF d.v >= item.num_sectors THEN "ok" ELSE "small")

\* PrivMappingItem::from_loop_mapping_item: [st, status, boxed] with st "ok",
\* "err" or "panic"; boxed tells that boxed_from_data_ptr took the item's pool.
from_loop_mapping_item(P, item, checked) ==
    IF item.target.kind = "Zero"
    THEN [st |-> "ok", status |-> "SUCCESS", boxed |-> FALSE]
    ELSE IF item.target.kind = "LoopPool"
    THEN IF item.target.id \notin PoolIds
         THEN [st |-> "err", status |-> "INVALID_PARAMETER", boxed |-> FALSE]
         ELSE With(validate_target_size(item, P[item.target.id].size, checked), LAMBDA v :
                  IF v = "panic" THEN [st |-> "panic", status |-> "PANIC", boxed |-> TRUE]
                  ELSE IF v = "small"
                  THEN [st |-> "err", status |-> "INVALID_PARAMETER", boxed |-> TRUE]
                  ELSE [st |-> "ok", status |-> "SUCCESS", boxed |-> TRUE])
    ELSE IF get_file_info(item.target.id).status # "SUCCESS"
    THEN [st |-> "err", status |-> get_file_info(item.target.id).status, boxed |-> FALSE]
    ELSE With(validate_target_size(item, get_file_info(item.target.id).size, checked),
              LAMBDA v :
             IF v = "panic" THEN [st |-> "panic", status |-> "PANIC", boxed |-> FALSE]
             ELSE IF v = "small"
             THEN [st |-> "err", status |-> "INVALID_PARAMETER", boxed |-> FALSE]
             ELSE [st |-> "ok", status |-> "SUCCESS", boxed |-> FALSE])

\* set_media: the assignment to ctx.table drops the table the device had.
set_media(c, P, read_only, table, checked) ==
    IF table = <<>> THEN DevResult("ok", "SUCCESS", c, P)
    ELSE With(AddU64(Last(table).start_sector, Last(table).num_sectors),
              LAMBDA total_sectors :
             IF total_sectors.ovf /\ checked THEN DevResult("panic", "PANIC", c, P)
             ELSE DevResult("ok", "SUCCESS",
                            [c EXCEPT !.table = table, !.read_only = read_only,
                                      !.block_size = SECTOR_SIZE,
                                      !.last_block = total_sectors.v,
                                      !.media_id = (@ + 1) % MediaIdMod,
                                      !.media_present = TRUE],
                            DropPools(P, TablePools(c.table))))

\* set_file: `connect` is the status of bt.connect_controller.
set_file(c, P, read_only, file, connect, checked) ==
    With(from_loop_mapping_item(P, FileItem(file, 0, 0, 0), checked), LAMBDA r :
        IF r.st # "ok" THEN DevResult("ok", r.status, c, P)
        ELSE With(set_media(c, P, read_only,
                            <<FileItem(file, 0, get_file_info(file).size \div SECTOR_SIZE, 0)>>,
                            checked),
                  LAMBDA m : DevResult(m.st, IF m.st = "ok" THEN connect ELSE m.status,
                                       m.c, m.P)))

\* table.sort_by_key(|i| i.start_sector): a stable sort, here by insertion.
RECURSIVE sort_by_start_sector(_)
sort_by_start_sector(table) ==
    IF Len(table) <= 1 THEN table
    ELSE LET sorted == sort_by_start_sector(Front(table))
             x == Last(table)
             k == Cardinality({i \in 1..Len(sorted) : sorted[i].start_sector <= x.start_sector})
         IN  SubSeq(sorted, 1, k) \o <<x>> \o SubSeq(sorted, k + 1, Len(sorted))

\* The pool of a supplied item, if its payload pointer names one
ItemPool(item) ==
    IF item.target.kind = "LoopPool" /\ item.target.id \in PoolIds
    THEN {item.target.id} ELSE {}

\* The loop of set_mapping_table (loop_pt.rs:271-308) from item i on:
\* [st, status, table, P] with st "ok" (table is priv_table), "err" or "panic".
\* An item that is not pushed is dropped with its Box<Pool>; so is priv_table
\* on every return that does not reach set_media.
RECURSIVE table_scan(_, _, _, _, _, _, _)
table_scan(P, table, i, res, prev_end, priv_table, checked) ==
    IF i > Len(table)
    THEN IF prev_end = 0
         THEN [st |-> "err", status |-> "INVALID_PARAMETER", table |-> priv_table,
               P |-> DropPools(P, TablePools(priv_table))]
         ELSE IF res # "SUCCESS"
         THEN [st |-> "err", status |-> res, table |-> priv_table,
               P |-> DropPools(P, TablePools(priv_table))]
         ELSE [st |-> "ok", status |-> "SUCCESS", table |-> priv_table, P |-> P]
    ELSE IF res # "SUCCESS"
    THEN table_scan(DropPools(P, ItemPool(table[i])), table, i + 1, res, prev_end,
                    priv_table, checked)
    ELSE With(from_loop_mapping_item(P, table[i], checked), LAMBDA item :
        IF item.st = "panic"
        THEN [st |-> "panic", status |-> "PANIC", table |-> priv_table, P |-> P]
        ELSE IF item.st = "err"
        THEN table_scan(IF item.boxed THEN DropPools(P, ItemPool(table[i])) ELSE P,
                        table, i + 1, item.status, prev_end, priv_table, checked)
        ELSE IF table[i].num_sectors = 0
        THEN table_scan(DropPools(P, ItemPool(table[i])), table, i + 1, res, prev_end,
                        priv_table, checked)
        ELSE IF table[i].start_sector # prev_end
        THEN [st |-> "err", status |-> "INVALID_PARAMETER", table |-> priv_table,
              P |-> DropPools(P, ItemPool(table[i]) \cup TablePools(priv_table))]
        ELSE With(AddU64(table[i].start_sector, table[i].num_sectors), LAMBDA e :
            IF e.ovf /\ checked
            THEN [st |-> "panic", status |-> "PANIC", table |-> priv_table, P |-> P]
            ELSE table_scan(BoxPools(P, ItemPool(table[i])), table, i + 1, res, e.v,
                            Append(priv_table, table[i]), checked)))

\* set_mapping_table: `connect` is the status of bt.connect_controller.
set_mapping_table(c, P, read_only, table, connect, checked) ==
    With(table_scan(P, sort_by_start_sector(table), 1, "SUCCESS", 0, <<>>, checked),
         LAMBDA s :
        IF s.st # "ok"
        THEN DevResult(IF s.st = "panic" THEN "panic" ELSE "ok", s.status, c, s.P)
        ELSE With(set_media(c, s.P, read_only, s.table, checked), LAMBDA m :
                 DevResult(m.st, IF m.st = "ok" THEN connect ELSE m.status, m.c, m.P)))

\* A clear that gives up when the firmware refuses the disconnect request.
clear_unless_refused(c, P, disconnect) ==
    IF disconnect # "SUCCESS" THEN DevResult("ok", disconnect, c, P)
    ELSE DevResult("ok", disconnect,
                   [c EXCEPT !.media_present = FALSE, !.last_block = 0, !.table = <<>>],
                   DropPools(P, TablePools(c.table)))

\* clear: `disconnect` is the status of bt.disconnect_controller; the
\* assignment ctx.table = vec![] drops the table.
clear(c, P, disconnect) ==
    DevResult("ok", disconnect,
              [c EXCEPT !.media_present = FALSE, !.last_block = 0, !.table = <<>>],
              DropPools(P, TablePools(c.table)))

\* size_of::<PoolHeader>(): a pointer and a usize
PoolHeaderSize == 16

\* isize::MAX, the largest size Layout::from_size_align accepts
IsizeMax == (U64Mod \div 2) - 1

\* alloc_pool(this, size, buffer) on the device c: p is the pool the allocator
\* returns.  [st, status, P, buffer]: buffer is the payload pointer written to
\* *buffer (NullHandle for none).  header_size + size wraps in a build without
\* overflow checks; the header records the size asked for.
alloc_pool(c, P, this_null, size, buffer_null, p, checked) ==
    IF this_null \/ buffer_null
    THEN [st |-> "ok", status |-> "INVALID_PARAMETER", P |-> P, buffer |-> 0]
    ELSE IF AddU64(PoolHeaderSize, size).ovf /\ checked
    THEN [st |-> "panic", status |-> "PANIC", P |-> P, buffer |-> 0]
    ELSE IF AddU64(PoolHeaderSize, size).v > IsizeMax
    THEN [st |-> "ok", status |-> "INVALID_PARAMETER", P |-> P, buffer |-> 0]
    ELSE [st |-> "ok", status |-> "SUCCESS",
          P |-> [P EXCEPT ![p] = [state |-> "held", owner |-> c.unit_number, size |-> size,
                                  data |-> [s \in 1..(size \div SECTOR_SIZE) |-> Uninit]]],
          buffer |-> p]

\* free_pool(this, buffer) on the device c: the Box made by boxed_from_data_ptr
\* is dropped on both returns that follow it.
free_pool(c, P, this_null, buffer) ==
    IF this_null \/ buffer = 0 THEN [st |-> "ok", status |-> "INVALID_PARAMETER", P |-> P]
    ELSE IF buffer \notin PoolIds THEN [st |-> "ok", status |-> "INVALID_PARAMETER", P |-> P]
    ELSE IF P[buffer].owner # c.unit_number
    THEN [st |-> "ok", status |-> "INVALID_PARAMETER",
          P |-> DropPools(BoxPools(P, {buffer}), {buffer})]
    ELSE [st |-> "ok", status |-> "SUCCESS",
          P |-> DropPools(BoxPools(P, {buffer}), {buffer})]

\* [T]::partition_point(|x| x.start_sector <= start_sector) on a table that is
\* sorted by start_sector
partition_point(table, start_sector) ==
    Cardinality({i \in 1..Len(table) : table[i].start_sector <= start_sector})

\* The target_cb closures without the call of validate_handle_protocol
target_cb_unvalidated(mode, target, fsvalid, fileio) ==
    IF target.kind # "File" THEN [status |-> "SUCCESS", fileops |-> <<>>]
    ELSE IF mode = "read"
    THEN [status |-> IF fileio = "ok" THEN "SUCCESS" ELSE "DEVICE_ERROR",
          fileops |-> <<"set_position", "read">>]
    ELSE [status |-> "ACCESS_DENIED", fileops |-> <<"set_position", "write">>]

\* The target_cb closures of read_blocks (mode "read") and write_blocks (mode
\* "write") on one item's target: [status, fileops], the status of the transfer
\* and the calls made on the target's file.  fsvalid: validate_handle_protocol
\* finds the cached file system interface; fileio: "ok", or "fail" when the
\* file's read comes back short.  The file was opened with FileMode::Read
\* (loop_pt.rs:170), so the firmware refuses to write to it.
target_cb(mode, target, fsvalid, fileio) ==
    IF target.kind # "File" THEN [status |-> "SUCCESS", fileops |-> <<>>]
    ELSE IF ~fsvalid THEN [status |-> "DEVICE_ERROR", fileops |-> <<>>]
    ELSE IF mode = "read"
    THEN [status |-> IF fileio = "ok" THEN "SUCCESS" ELSE "DEVICE_ERROR",
          fileops |-> <<"set_position", "read">>]
    ELSE [status |-> "ACCESS_DENIED", fileops |-> <<"set_position", "write">>]

\* One call of target_cb as access_blocks makes it: on item i of the table, for
\* num sectors from sector `sector` of the target, with the buffer's sectors
\* from `off` on.
TargetOp(i, target, sector, num, off, r) ==
    [item |-> i, target |-> target, sector |-> sector, num |-> num, off |-> off,
     status |-> r.status, fileops |-> r.fileops]

\* pool.data[sector * SECTOR_SIZE..(sector + num) * SECTOR_SIZE] is inside the payload
PoolSliceOk(P, target, sector, num) ==
    target.kind = "LoopPool" => sector + num <= P[target.id].size \div SECTOR_SIZE

\* The loop of access_blocks with every item accessed from its
\* target_start_sector on, whatever the offset of the request in the item.
RECURSIVE access_items_no_offset(_, _, _, _, _, _, _, _, _, _, _)
access_items_no_offset(P, mode, table, i, start_sector, total_sectors, total_advance, ops, fsvalid, fileio, checked) ==
    IF i > Len(table) \/ total_sectors - total_advance = 0
    THEN [st |-> "ok", status |-> "SUCCESS", total_advance |-> total_advance, ops |-> ops]
    ELSE
    LET remaining == total_sectors - total_advance
        curr_sector == AddU64(start_sector, total_advance)
        item_end_sector == AddU64(table[i].start_sector, table[i].num_sectors)
        room == SubU64(item_end_sector.v, curr_sector.v)
        advance == IF remaining <= room.v THEN remaining ELSE room.v
        offset == SubU64(curr_sector.v, table[i].start_sector)
        target_sector == AddU64(table[i].target_start_sector, 0)
        op == TargetOp(i, table[i].target, target_sector.v, advance, total_advance,
                       target_cb(mode, table[i].target, fsvalid, fileio))
    IN  IF checked /\ (curr_sector.ovf \/ item_end_sector.ovf \/ room.ovf \/ offset.ovf
                       \/ target_sector.ovf)
        THEN [st |-> "panic", status |-> "PANIC", total_advance |-> total_advance,
              ops |-> ops]
        ELSE IF ~PoolSliceOk(P, table[i].target, target_sector.v, advance)
        THEN [st |-> "panic", status |-> "PANIC", total_advance |-> total_advance,
              ops |-> ops]
        ELSE IF op.status # "SUCCESS"
        THEN [st |-> "err", status |-> op.status, total_advance |-> total_advance,
              ops |-> Append(ops, op)]
        ELSE access_items_no_offset(P, mode, table, i + 1, start_sector, total_sectors,
                          total_advance + advance, Append(ops, op), fsvalid, fileio, checked)

\* The loop of access_blocks (block_io.rs:54-70) from item i on:
\* [st, status, total_advance, ops] with st "ok", "err" (target_cb failed) or
\* "panic"; ops are the calls of target_cb made, in order.
RECURSIVE access_items(_, _, _, _, _, _, _, _, _, _, _)
access_items(P, mode, table, i, start_sector, total_sectors, total_advance, ops, fsvalid, fileio, checked) ==
    IF i > Len(table) \/ total_sectors - total_advance = 0
    THEN [st |-> "ok", status |-> "SUCCESS", total_advance |-> total_advance, ops |-> ops]
    ELSE
    LET remaining == total_sectors - total_advance
        curr_sector == AddU64(start_sector, total_advance)
        item_end_sector == AddU64(table[i].start_sector, table[i].num_sectors)
        room == SubU64(item_end_sector.v, curr_sector.v)
        advance == IF remaining <= room.v THEN remaining ELSE room.v
        offset == SubU64(curr_sector.v, table[i].start_sector)
        target_sector == AddU64(table[i].target_start_sector, offset.v)
        op == TargetOp(i, table[i].target, target_sector.v, advance, total_advance,
                       target_cb(mode, table[i].target, fsvalid, fileio))
    IN  IF checked /\ (curr_sector.ovf \/ item_end_sector.ovf \/ room.ovf \/ offset.ovf
                       \/ target_sector.ovf)
        THEN [st |-> "panic", status |-> "PANIC", total_advance |-> total_advance,
              ops |-> ops]
        ELSE IF ~PoolSliceOk(P, table[i].target, target_sector.v, advance)
        THEN [st |-> "panic", status |-> "PANIC", total_advance |-> total_advance,
              ops |-> ops]
        ELSE IF op.status # "SUCCESS"
        THEN [st |-> "err", status |-> op.status, total_advance |-> total_advance,
              ops |-> Append(ops, op)]
        ELSE access_items(P, mode, table, i + 1, start_sector, total_sectors,
                          total_advance + advance, Append(ops, op), fsvalid, fileio, checked)

\* What sector s of a target holds
TargetData(P, target, s) ==
    IF target.kind = "Zero" THEN ZeroData
    ELSE IF target.kind = "LoopPool" THEN P[target.id].data[s + 1]
    ELSE FileData(target.id, s)

\* The calls of target_cb that moved buffer sector j (counted from 1)
OpsOn(ops, j) ==
    {k \in 1..Len(ops) : /\ ops[k].status = "SUCCESS"
                         /\ ops[k].off < j /\ j <= ops[k].off + ops[k].num}
\* The highest number of a set of calls
LastOf(K) == CHOOSE k \in K : \A m \in K : m <= k

\* The caller's buffer of n sectors after the read closures of ops ran
\* (buffer.fill(0), copy_from_slice, file.read)
ReadBuffer(P, ops, n) ==
    [j \in 1..n |->
        IF OpsOn(ops, j) = {} THEN Stale
        ELSE TargetData(P, ops[LastOf(OpsOn(ops, j))].target,
                        ops[LastOf(OpsOn(ops, j))].sector
                            + (j - 1 - ops[LastOf(OpsOn(ops, j))].off))]

\* The calls of target_cb that wrote sector s (counted from 0) of pool p
WritesTo(ops, p, s) ==
    {k \in 1..Len(ops) : /\ ops[k].status = "SUCCESS"
                         /\ ops[k].target = [kind |-> "LoopPool", id |-> p]
                         /\ ops[k].sector <= s /\ s < ops[k].sector + ops[k].num}

\* The pools after the write closures of ops ran on the buffer W
\* (data_slice.copy_from_slice(buffer); a write to a zero range is discarded)
WritePools(P, ops, W) ==
    [p \in PoolIds |->
        [P[p] EXCEPT !.data =
            [s \in DOMAIN @ |->
                IF WritesTo(ops, p, s - 1) = {} THEN @[s]
                ELSE W[ops[LastOf(WritesTo(ops, p, s - 1))].off
                       + (s - 1 - ops[LastOf(WritesTo(ops, p, s - 1))].sector) + 1]]]]

\* A block-I/O call returns [st, status, c, P, ops, data]: ops are the calls
\* made on targets, data is the caller's buffer after the call.
IoResult(st, status, c, P, ops, data) ==
    [st |-> st, status |-> status, c |-> c, P |-> P, ops |-> ops, data |-> data]

\* block_io.rs:53,67: the table is taken out of the context before the loop; the
\* `?` on target_cb returns before line 71 puts it back.
access_blocks_failed(c) == [c EXCEPT !.table = <<>>]

\* access_blocks(ctx, lba, buffer, target_cb) with the closure of `mode` and the
\* buffer W, one value per sector (buffer_len bytes).  The table that is not
\* put back is dropped.
access_blocks(c, P, mode, lba, buffer_len, W, fsvalid, fileio, checked) ==
    LET end_sector == IF c.table = <<>> THEN AddU64(0, 0)
                      ELSE AddU64(Last(c.table).start_sector, Last(c.table).num_sectors)
        bytes == MulU64(lba, c.block_size)
        start_sector == bytes.v \div SECTOR_SIZE
        total_sectors == buffer_len \div SECTOR_SIZE
        wanted_end == AddU64(start_sector, total_sectors)
        upper_bound == partition_point(c.table, start_sector)
        After(ops) == IF mode = "read" THEN P ELSE WritePools(P, ops, W)
        Buffer(ops) == IF mode = "read" THEN ReadBuffer(P, ops, total_sectors) ELSE W
    IN  IF checked /\ (end_sector.ovf \/ bytes.ovf \/ wanted_end.ovf)
        THEN IoResult("panic", "PANIC", c, P, <<>>, W)
        ELSE IF wanted_end.v > end_sector.v
        THEN IoResult("ok", "INVALID_PARAMETER", c, P, <<>>, W)
        ELSE IF upper_bound = 0 THEN IoResult("panic", "PANIC", c, P, <<>>, W)
        ELSE With(access_items(P, mode, c.table, upper_bound, start_sector, total_sectors,
                               0, <<>>, fsvalid, fileio, checked),
                  LAMBDA r :
                 IF r.st = "panic"
                 THEN IoResult("panic", "PANIC", access_blocks_failed(c), After(r.ops),
                               r.ops, Buffer(r.ops))
                 ELSE IF r.st = "err"
                 THEN IoResult("ok", r.status, access_blocks_failed(c),
                               DropPools(After(r.ops), TablePools(c.table)),
                               r.ops, Buffer(r.ops))
                 ELSE IF r.total_advance # total_sectors
                 THEN IoResult("panic", "PANIC", c, After(r.ops), r.ops, Buffer(r.ops))
                 ELSE IoResult("ok", "SUCCESS", c, After(r.ops), r.ops, Buffer(r.ops)))

\* validate_blocks_params with the buffer size checked before the media
validate_blocks_params_size_first(c, this_null, media_id, buffer_size, buffer_null) ==
    IF this_null THEN "INVALID_PARAMETER"
    ELSE IF buffer_size % c.block_size # 0 THEN "BAD_BUFFER_SIZE"
    ELSE IF ~c.media_present THEN "NO_MEDIA"
    ELSE IF media_id # c.media_id THEN "MEDIA_CHANGED"
    ELSE IF buffer_size > 0 /\ buffer_null THEN "INVALID_PARAMETER"
    ELSE "SUCCESS"

\* validate_blocks_params(this, media_id, lba, buffer_size, buffer)
validate_blocks_params(c, this_null, media_id, buffer_size, buffer_null) ==
    IF this_null THEN "INVALID_PARAMETER"
    ELSE IF ~c.media_present THEN "NO_MEDIA"
    ELSE IF media_id # c.media_id THEN "MEDIA_CHANGED"
    ELSE IF buffer_size > 0 /\ buffer_null THEN "INVALID_PARAMETER"
    ELSE IF buffer_size % c.block_size # 0 THEN "BAD_BUFFER_SIZE"
    ELSE "SUCCESS"

\* read_blocks(this, media_id, lba, buffer_size, buffer): W is what the buffer
\* holds before the call.
read_blocks(c, P, this_null, media_id, lba, buffer_size, buffer_null, W, fsvalid, fileio, checked) ==
    IF validate_blocks_params(c, this_null, media_id, buffer_size, buffer_null) # "SUCCESS"
    THEN IoResult("ok", validate_blocks_params(c, this_null, media_id, buffer_size,
                                               buffer_null), c, P, <<>>, W)
    ELSE access_blocks(c, P, "read", lba, buffer_size, W, fsvalid, fileio, checked)

\* write_blocks(this, media_id, lba, buffer_size, buffer): W is the data to write.
write_blocks(c, P, this_null, media_id, lba, buffer_size, buffer_null, W, fsvalid, fileio, checked) ==
    IF validate_blocks_params(c, this_null, media_id, buffer_size, buffer_null) # "SUCCESS"
    THEN IoResult("ok", validate_blocks_params(c, this_null, media_id, buffer_size,
                                               buffer_null), c, P, <<>>, W)
    ELSE IF c.read_only THEN IoResult("ok", "WRITE_PROTECTED", c, P, <<>>, W)
    ELSE access_blocks(c, P, "write", lba, buffer_size, W, fsvalid, fileio, checked)

\* flush_blocks(this): the loop over the table's file targets from item i on;
\* a file opened with FileMode::Read refuses the flush.  [status, ops].
RECURSIVE flush_items(_, _, _, _)
flush_items(table, i, ops, fsvalid) ==
    IF i > Len(table) THEN [status |-> "SUCCESS", ops |-> ops]
    ELSE IF table[i].target.kind # "File" THEN flush_items(table, i + 1, ops, fsvalid)
    ELSE IF ~fsvalid
    THEN [status |-> "DEVICE_ERROR",
          ops |-> Append(ops, TargetOp(i, table[i].target, 0, 0, 0,
                                       [status |-> "DEVICE_ERROR", fileops |-> <<>>]))]
    ELSE [status |-> "ACCESS_DENIED",
          ops |-> Append(ops, TargetOp(i, table[i].target, 0, 0, 0,
                                       [status |-> "ACCESS_DENIED", fileops |-> <<"flush">>]))]

\* flush_blocks(this)
flush_blocks(c, P, this_null, fsvalid) ==
    IF this_null THEN IoResult("ok", "INVALID_PARAMETER", c, P, <<>>, <<>>)
    ELSE IF ~c.media_present THEN IoResult("ok", "NO_MEDIA", c, P, <<>>, <<>>)
    ELSE IF c.read_only THEN IoResult("ok", "SUCCESS", c, P, <<>>, <<>>)
    ELSE With(flush_items(c.table, 1, <<>>, fsvalid), LAMBDA r :
             IoResult("ok", r.status, c, P, r.ops, <<>>))

----------------------------------------------------------------------------
(* The loop controller.  A controller state S is                           *)
(* [db, opened, list, ctxs]; an operation returns [st, status, S, handle,  *)
(* tried] with st "ok", "err" or "panic"; tried holds the unit number    *)
(* install_loopback was called with, if it was called.                     *)

ChildProtocols(unit_number) ==
    << <<"DEVICE_PATH", unit_number>>, <<"LOOP", unit_number>>, <<"BLOCK_IO", unit_number>> >>

CtxNone == [alloc |-> "none", c |-> NewLoopContext(0)]
\* A freed allocation: c is the state the child had when it was freed, which the
\* code can no longer read (see ReadIsFree).
CtxFreed(c) == [alloc |-> "freed", c |-> c]
CtxLive(c) == [alloc |-> "live", c |-> c]

CtlResult(st, status, S, handle, tried) ==
    [st |-> st, status |-> status, S |-> S, handle |-> handle, tried |-> tried]

\* open_loop_ctl_by_child
open_loop_ctl_by_child(F) ==
    IF <<"open", "LOOP_CONTROL">> \in F THEN "ACCESS_DENIED" ELSE "SUCCESS"

\* install_loopback(bus_handle, None, unit_number)
install_loopback(S, unit_number, F) ==
    With(install_multiple_protocols(S.db, NullHandle, ChildProtocols(unit_number), F),
         LAMBDA r :
        IF r.st # "ok"
        THEN CtlResult(r.st, r.status, [S EXCEPT !.db = r.db], NullHandle, {unit_number})
        ELSE IF open_loop_ctl_by_child(F) = "SUCCESS"
        THEN CtlResult("ok", "SUCCESS",
                       [S EXCEPT !.db = r.db, !.opened = @ \cup {r.handle},
                                 !.ctxs[r.handle] = CtxLive(NewLoopContext(unit_number))],
                       r.handle, {unit_number})
        ELSE With(uninstall_multiple_protocols(r.db, r.handle,
                                               ChildProtocols(unit_number), F),
                  LAMBDA u :
                 IF u.st = "ok"
                 THEN CtlResult("err", "ACCESS_DENIED", [S EXCEPT !.db = u.db],
                                NullHandle, {unit_number})
                 ELSE CtlResult("panic", u.status, [S EXCEPT !.db = u.db],
                                NullHandle, {unit_number})))

\* Vec::sort_by_key(|i| i.0): a stable sort, here by insertion.
RECURSIVE sort_by_key(_)
sort_by_key(list) ==
    IF Len(list) <= 1 THEN list
    ELSE LET sorted == sort_by_key(Front(list))
             x == Last(list)
             k == Cardinality({i \in 1..Len(sorted) : sorted[i].unit <= x.unit})
         IN  SubSeq(sorted, 1, k) \o <<x>> \o SubSeq(sorted, k + 1, Len(sorted))

\* A push that leaves the new entry at the end.
push_unsorted(list, entry) == Append(list, entry)

\* A push that loses the new entry.
push_lost(list, entry) == list

\* loop_ctl.rs:23-24: push, then sort by unit number
push_sorted(list, entry) == sort_by_key(Append(list, entry))

\* add_loopback
add_loopback(S, unit_number, F) ==
    With(install_loopback(S, unit_number, F), LAMBDA r :
        IF r.st # "ok" THEN r
        ELSE CtlResult("ok", "SUCCESS",
                       [r.S EXCEPT !.list = push_sorted(@, [unit |-> unit_number,
                                                            handle |-> r.handle])],
                       r.handle, r.tried))

\* slice::binary_search_by_key(&unit_number, |i| i.0) on [lo, hi): the index
\* found, or 0 for Err.
RECURSIVE binary_search_by_key(_, _, _, _)
binary_search_by_key(list, unit_number, lo, hi) ==
    IF lo >= hi THEN 0
    ELSE LET mid == lo + (hi - lo) \div 2
         IN  IF list[mid].unit = unit_number THEN mid
             ELSE IF list[mid].unit < unit_number
             THEN binary_search_by_key(list, unit_number, mid + 1, hi)
             ELSE binary_search_by_key(list, unit_number, lo, mid)

\* A search that never looks at the last entry.
SearchUnitShort(list, unit_number) == binary_search_by_key(list, unit_number, 1, Len(list))

\* loop_list.binary_search_by_key(&unit_number, |i| i.0)
SearchUnit(list, unit_number) == binary_search_by_key(list, unit_number, 1, Len(list) + 1)

\* What get_free reads through a child-state pointer: the flag of a live
\* allocation, or whatever the freed memory holds (garbage: the freed
\* children that read as free).
ReadIsFree(S, handle, garbage) ==
    IF S.ctxs[handle].alloc = "live" THEN is_free(S.ctxs[handle].c)
    ELSE handle \in garbage

\* get_free's scan of the list (loop_ctl.rs:40-53): [kind, handle, free_number]
RECURSIVE get_free_scan(_, _, _, _)
get_free_scan(S, i, free_number, garbage) ==
    IF i > Len(S.list) THEN [kind |-> "none", handle |-> NullHandle, free_number |-> free_number]
    ELSE IF ReadIsFree(S, S.list[i].handle, garbage)
    THEN [kind |-> "found", handle |-> S.list[i].handle, free_number |-> free_number]
    ELSE IF S.list[i].unit = free_number
    THEN IF free_number = U32Max
         THEN [kind |-> "aborted", handle |-> NullHandle, free_number |-> free_number]
         ELSE get_free_scan(S, i + 1, free_number + 1, garbage)
    ELSE get_free_scan(S, i + 1, free_number, garbage)

\* get_free(this, loop_handle)
get_free(S, nullarg, F, garbage) ==
    IF nullarg THEN CtlResult("err", "INVALID_PARAMETER", S, NullHandle, {})
    ELSE LET scan == get_free_scan(S, 1, 0, garbage)
         IN  IF scan.kind = "found" THEN CtlResult("ok", "SUCCESS", S, scan.handle, {})
             ELSE IF scan.kind = "aborted" THEN CtlResult("err", "ABORTED", S, NullHandle, {})
             ELSE add_loopback(S, scan.free_number, F)

\* find(this, unit_number, loop_handle)
find(S, nullarg, unit_number) ==
    IF nullarg THEN CtlResult("err", "INVALID_PARAMETER", S, NullHandle, {})
    ELSE LET idx == SearchUnit(S.list, unit_number)
         IN  IF idx # 0 THEN CtlResult("ok", "SUCCESS", S, S.list[idx].handle, {})
             ELSE CtlResult("err", "NOT_FOUND", S, NullHandle, {})

\* add(this, unit_number, loop_handle)
add(S, nullarg, unit_number, F) ==
    IF nullarg THEN CtlResult("err", "INVALID_PARAMETER", S, NullHandle, {})
    ELSE IF SearchUnit(S.list, unit_number) # 0
    THEN CtlResult("err", "INVALID_PARAMETER", S, NullHandle, {})
    ELSE add_loopback(S, unit_number, F)

\* The end of uninstall_loopback's scope on its error path: the Box<LoopContext>
\* taken with Box::from_raw is dropped, which closes loop_ctl and frees the state.
DropLoopContext(S, handle) ==
    [S EXCEPT !.opened = @ \ {handle}, !.ctxs[handle] = CtxFreed(@.c)]

LoopPairs(db, handle) == {p \in db[handle] : p[1] = "LOOP"}

\* uninstall_loopback(bus_handle, device_handle).  ub: what the build does when
\* the child state it reads was freed before ("intact": the bytes are still
\* there; "crash": the machine stops).
uninstall_loopback(S, handle, F, ub) ==
    IF <<"get", "LOOP">> \in F
    THEN CtlResult("err", "ACCESS_DENIED", S, handle, {})
    ELSE IF LoopPairs(S.db, handle) = {}
    THEN CtlResult("err", "UNSUPPORTED", S, handle, {})
    ELSE IF S.ctxs[handle].alloc # "live" /\ ub = "crash"
    THEN CtlResult("panic", "ABORTED", S, handle, {})
    ELSE
    LET unit_number == (CHOOSE p \in LoopPairs(S.db, handle) : TRUE)[2]
        closed == [S EXCEPT !.opened = @ \ {handle}]
    IN  With(uninstall_multiple_protocols(S.db, handle, ChildProtocols(unit_number), F),
             LAMBDA u :
        IF u.st = "ok"
        THEN CtlResult("ok", "SUCCESS",
                       [closed EXCEPT !.db = u.db, !.ctxs[handle] = CtxNone], handle, {})
        ELSE IF u.st = "panic"
        THEN CtlResult("panic", u.status, [closed EXCEPT !.db = u.db], handle, {})
        ELSE IF open_loop_ctl_by_child(F) = "SUCCESS"
        THEN CtlResult("err", u.status,
                       DropLoopContext([closed EXCEPT !.db = u.db, !.opened = @ \cup {handle}],
                                       handle),
                       handle, {})
        ELSE CtlResult("err", "ACCESS_DENIED",
                       DropLoopContext([closed EXCEPT !.db = u.db], handle), handle, {}))

\* The index of the first list entry with this handle, or 0.
FindHandle(list, handle) ==
    IF \E i \in 1..Len(list) : list[i].handle = handle
    THEN CHOOSE i \in 1..Len(list) :
            list[i].handle = handle /\ \A j \in 1..(i - 1) : list[j].handle # handle
    ELSE 0

\* The unit number remove logs for this handle (0 when the handle is not listed).
UnitOf(list, handle) ==
    IF handle # NullHandle /\ FindHandle(list, handle) # 0
    THEN list[FindHandle(list, handle)].unit ELSE 0

\* A removal that keeps the entry.
RemoveAtNone(list, idx) == list

\* loop_list.remove(idx)
RemoveAt(list, idx) == SubSeq(list, 1, idx - 1) \o SubSeq(list, idx + 1, Len(list))

\* remove(this, loop_handle)
remove(S, nullarg, handle, F, ub) ==
    IF nullarg \/ handle = NullHandle
    THEN CtlResult("err", "INVALID_PARAMETER", S, handle, {})
    ELSE LET idx == FindHandle(S.list, handle)
         IN  IF idx = 0 THEN CtlResult("err", "NOT_FOUND", S, handle, {})
             ELSE With(uninstall_loopback(S, handle, F, ub), LAMBDA r :
                      IF r.st # "ok" THEN r
                      ELSE CtlResult("ok", "SUCCESS",
                                     [r.S EXCEPT !.list = RemoveAt(@, idx)], handle, {}))

\* A stop that goes on with the later children after a failing remove and
\* returns the first failure.
RECURSIVE stop_from_past_failure(_, _, _, _, _)
stop_from_past_failure(S, children, i, Fs, ub) ==
    IF i > Len(children) THEN CtlResult("ok", "SUCCESS", S, NullHandle, {})
    ELSE With(remove(S, FALSE, children[i], Fs[i], ub), LAMBDA r :
             IF r.st = "ok" THEN stop_from_past_failure(r.S, children, i + 1, Fs, ub)
             ELSE IF r.st = "panic" THEN r
             ELSE With(stop_from_past_failure(r.S, children, i + 1, Fs, ub), LAMBDA q :
                      IF q.st = "panic" THEN q
                      ELSE CtlResult("err", r.status, q.S, r.handle, {})))

\* driver-binding stop(this, controller, num_children, child_handle_buf): Fs[i]
\* is the fault set of the i-th remove.
RECURSIVE stop_from(_, _, _, _, _)
stop_from(S, children, i, Fs, ub) ==
    IF i > Len(children) THEN CtlResult("ok", "SUCCESS", S, NullHandle, {})
    ELSE With(remove(S, FALSE, children[i], Fs[i], ub), LAMBDA r :
             IF r.st # "ok" THEN r
             ELSE stop_from(r.S, children, i + 1, Fs, ub))

stop(S, nullarg, children, Fs, ub) ==
    IF nullarg THEN CtlResult("err", "INVALID_PARAMETER", S, NullHandle, {})
    ELSE stop_from(S, children, 1, Fs, ub)

\* A remove_children that pops the entry before it uninstalls the child.
RECURSIVE remove_children_pop_first(_, _, _)
remove_children_pop_first(S, Fby, ub) ==
    IF S.list = <<>> THEN CtlResult("ok", "SUCCESS", S, NullHandle, {})
    ELSE With(uninstall_loopback([S EXCEPT !.list = Front(@)], Last(S.list).handle,
                                 Fby[Last(S.list).handle], ub),
              LAMBDA r :
             IF r.st # "ok" THEN r
             ELSE remove_children_pop_first(r.S, Fby, ub))

\* remove_children(ctx): Fby[h] is the fault set of the uninstall of child h.
RECURSIVE remove_children(_, _, _)
remove_children(S, Fby, ub) ==
    IF S.list = <<>> THEN CtlResult("ok", "SUCCESS", S, NullHandle, {})
    ELSE With(uninstall_loopback(S, Last(S.list).handle, Fby[Last(S.list).handle], ub),
              LAMBDA r :
             IF r.st # "ok" THEN r
             ELSE remove_children([r.S EXCEPT !.list = Front(@)], Fby, ub))

CtlGuids == {"DEVICE_PATH", "DRIVER_BINDING", "COMPONENT_NAME2", "LOOP_CONTROL"}
CtlProtocols ==
    << <<"DEVICE_PATH", BusHandle>>, <<"DRIVER_BINDING", BusHandle>>,
       <<"COMPONENT_NAME2", BusHandle>>, <<"LOOP_CONTROL", BusHandle>> >>
LoadedImage == <<"LOADED_IMAGE", BusHandle>>

\* uninstall_loop_control(bus_handle): st "ok" means the controller is gone.
uninstall_loop_control(S, getfail, Fby, Fc, ub) ==
    IF getfail THEN CtlResult("err", "ACCESS_DENIED", S, BusHandle, {})
    ELSE With(remove_children(S, Fby, ub), LAMBDA r :
             IF r.st # "ok" THEN r
             ELSE With(uninstall_multiple_protocols(r.S.db, BusHandle, CtlProtocols, Fc),
                       LAMBDA u :
                      CtlResult(u.st, u.status, [r.S EXCEPT !.db = u.db], BusHandle, {})))

----------------------------------------------------------------------------
(* lopatch: the patch planner of attach_loop_device.  Byte and sector       *)
(* counts are plain integers here: the sizes of the model are far below the *)
(* widths of the code.  A chunk of a reader list is its size in bytes; a     *)
(* pool the planner allocated is named by its number in plan.pools, which    *)
(* holds the payload size of each.                                           *)

ISO_BLOCK_SIZE == 2048
\* (ISO_BLOCK_SIZE / SECTOR_SIZE)
SectorsPerBlock == ISO_BLOCK_SIZE \div SECTOR_SIZE

\* PatchAction
MetaCpio == [kind |-> "MetaCpio", file |-> 0]
AppendAction(file) == [kind |-> "Append", file |-> file]
ReplaceAction(file) == [kind |-> "Replace", file |-> file]
\* Option<&PatchAction>::None
NoAction == [kind |-> "None", file |-> 0]

\* The files --append and --replace name, by id, with their sizes in bytes: one
\* of two sectors and a rest, one shorter than a sector, one of one sector.
PatchFileSizes == <<2 * SECTOR_SIZE + 256, 100, SECTOR_SIZE>>
PatchFileIds == 1..Len(PatchFileSizes)
\* The image file as a File target of the planner's items
ImageFile == Len(PatchFileSizes) + 1

\* utils.rs get_file_info on a path of the command line
patch_file_info(file) ==
    IF file \in PatchFileIds THEN [status |-> "SUCCESS", size |-> PatchFileSizes[file]]
    ELSE [status |-> "NOT_FOUND", size |-> 0]

\* ISO9660::new(file).is_ok(): the 7 bytes at block 16 can be read, and the
\* descriptor is refused only when the identifier is not CD001 and the
\* version is not 1.
ISO9660_new(image) ==
    /\ image.file_size >= 16 * ISO_BLOCK_SIZE + 7
    /\ ~(~image.cd001 /\ image.vd_ver # 1)

\* ISO9660::read(position, buffer) of len bytes: a short read is an error
iso_read(image, position, len) ==
    IF position + len <= image.file_size THEN "SUCCESS" ELSE "DEVICE_ERROR"

\* let read_only = if iso9660.is_ok() && !read_only { true } else { read_only }
forced_read_only_as_given(iso_ok, read_only) == read_only

forced_read_only(iso_ok, read_only) == IF iso_ok /\ ~read_only THEN TRUE ELSE read_only

\* matches.into_iter().flat_map(|idx| &patch[idx].1): the actions of the
\* matching rules, by ascending rule index
RECURSIVE matched_actions(_, _, _)
matched_actions(patch, matches, idx) ==
    IF idx > Len(patch) THEN <<>>
    ELSE (IF idx \in matches THEN patch[idx] ELSE <<>>) \o matched_actions(patch, matches, idx + 1)

\* A fold in which a Replace does not reset the list of appends.
RECURSIVE fold_actions_keep_appends(_, _, _, _)
fold_actions_keep_appends(actions, i, replace, res) ==
    IF i > Len(actions) THEN [replace |-> replace, appends |-> res]
    ELSE IF actions[i].kind = "Replace"
    THEN fold_actions_keep_appends(actions, i + 1, actions[i], res)
    ELSE fold_actions_keep_appends(actions, i + 1, replace, Append(res, actions[i]))

\* The loop that folds the matched actions into (replace, appends)
RECURSIVE fold_actions(_, _, _, _)
fold_actions(actions, i, replace, res) ==
    IF i > Len(actions) THEN [replace |-> replace, appends |-> res]
    ELSE IF actions[i].kind = "Replace"
    THEN fold_actions(actions, i + 1, actions[i], <<>>)
    ELSE fold_actions(actions, i + 1, replace, Append(res, actions[i]))

\* The closure append_item: the item goes to the end of the appended region;
\* [L, start_sector]
append_item(L, target, target_start_sector, num_sectors) ==
    [L |-> [L EXCEPT !.append_item_list =
                         Append(@, [start_sector |-> L.append_item_start,
                                    num_sectors |-> num_sectors, target |-> target,
                                    target_start_sector |-> target_start_sector]),
                     !.append_item_start = @ + num_sectors],
     start_sector |-> L.append_item_start]

four_bytes_padded_size(size) == ((size + 3) \div 4) * 4

\* mem::size_of::<CpioNewcHeader>(): a magic of 6 bytes and 13 fields of 8
CpioNewcHeaderSize == 6 + 13 * 8

calc_cpio_entry_size(name_size, file_size) ==
    four_bytes_padded_size(CpioNewcHeaderSize + name_size) + four_bytes_padded_size(file_size)

\* b".uefi-lopatch-metadata".len() and b"TRAILER!!!".len()
META_FILE_NAME_len == 22
TRAILER_len == 10

\* MetaCpioChunk::size for a metadata text of metadata_len bytes
MetaCpioChunk_size(metadata_len) ==
    LET entries == calc_cpio_entry_size(META_FILE_NAME_len + 1, metadata_len)
                   + calc_cpio_entry_size(TRAILER_len + 1, 0)
    IN  ((entries + SECTOR_SIZE - 1) \div SECTOR_SIZE) * SECTOR_SIZE

\* The length of "LOPATCH_DEVICE_PATH='<device path text>'\n" for the image's
\* device path of the model
MetadataLen == 64

RECURSIVE SumSeq(_)
SumSeq(sizes) == IF sizes = <<>> THEN 0 ELSE sizes[1] + SumSeq(Tail(sizes))

\* The loop over `appends` of the walk callback: the reader list with one
\* chunk more per action, [status, reader_list]
RECURSIVE append_readers(_, _, _)
append_readers(appends, i, reader_list) ==
    IF i > Len(appends) THEN [status |-> "SUCCESS", reader_list |-> reader_list]
    ELSE IF appends[i].kind = "Append"
    THEN IF patch_file_info(appends[i].file).status # "SUCCESS"
         THEN [status |-> patch_file_info(appends[i].file).status, reader_list |-> reader_list]
         ELSE append_readers(appends, i + 1,
                             Append(reader_list, patch_file_info(appends[i].file).size))
    ELSE append_readers(appends, i + 1,
                        Append(reader_list, MetaCpioChunk_size(MetadataLen)))

PlanResult(st, status, L) == [st |-> st, status |-> status, L |-> L]

\* The second half of the walk callback: the pool of the rests and appended
\* chunks, the patch record and the pool's item.
patch_file_pool(L, info, file_start_sector, file_item_size, reader_list) ==
    LET pool_pos == SumSeq(reader_list)
        pool_size == ((pool_pos + SECTOR_SIZE - 1) \div SECTOR_SIZE) * SECTOR_SIZE
        loop_pool == Len(L.pools) + 1
        recorded == [L EXCEPT !.pools = Append(@, pool_size),
                              !.patch_record_list =
                                  Append(@, [record_position |-> info.record_position,
                                             new_extent_lba |->
                                                 file_start_sector \div SectorsPerBlock,
                                             new_extent_size |-> file_item_size + pool_pos])]
    IN  PlanResult("ok", "SUCCESS",
                   append_item(recorded, [kind |-> "LoopPool", id |-> loop_pool], 0,
                               pool_size \div SECTOR_SIZE).L)

\* The callback attach_loop_device passes to walk_record, on one record of the
\* walk: info is [is_dir, matches, record_position, extent_position,
\* extent_size].  L.fold keeps what the fold of the last matched file gave.
patch_file(L, image, patch, info) ==
    IF info.is_dir \/ info.matches = {} THEN PlanResult("ok", "SUCCESS", L)
    ELSE
    With(fold_actions(matched_actions(patch, info.matches, 1), 1, NoAction, <<>>), LAMBDA f :
    With([L EXCEPT !.fold = [actions |-> matched_actions(patch, info.matches, 1),
                             replace |-> f.replace, appends |-> f.appends]], LAMBDA L1 :
        IF f.replace # NoAction
        THEN IF patch_file_info(f.replace.file).status # "SUCCESS"
             THEN PlanResult("err", patch_file_info(f.replace.file).status, L1)
             ELSE LET size == patch_file_info(f.replace.file).size
                      a == append_item(L1, [kind |-> "File", id |-> f.replace.file], 0,
                                       size \div SECTOR_SIZE)
                      file_rest == size % SECTOR_SIZE
                      r == append_readers(f.appends, 1,
                                          IF file_rest > 0 THEN <<file_rest>> ELSE <<>>)
                  IN  IF r.status # "SUCCESS" THEN PlanResult("err", r.status, a.L)
                      ELSE patch_file_pool(a.L, info, a.start_sector,
                                           (size \div SECTOR_SIZE) * SECTOR_SIZE,
                                           r.reader_list)
        ELSE LET a == append_item(L1, [kind |-> "File", id |-> ImageFile],
                                  info.extent_position \div SECTOR_SIZE,
                                  info.extent_size \div SECTOR_SIZE)
                 file_item_size == (info.extent_size \div SECTOR_SIZE) * SECTOR_SIZE
                 file_rest == info.extent_size % SECTOR_SIZE
                 r == append_readers(f.appends, 1,
                                     IF file_rest > 0 THEN <<file_rest>> ELSE <<>>)
             IN  IF file_rest > 0
                    /\ iso_read(image, info.extent_position + file_item_size, file_rest)
                           # "SUCCESS"
                 THEN PlanResult("err", "DEVICE_ERROR", a.L)
                 ELSE IF r.status # "SUCCESS" THEN PlanResult("err", r.status, a.L)
                 ELSE patch_file_pool(a.L, info, a.start_sector, file_item_size,
                                      r.reader_list)))

\* patch_record_list.sort_by_key(|i| i.record_position): a stable sort
RECURSIVE sort_by_record_position(_)
sort_by_record_position(list) ==
    IF Len(list) <= 1 THEN list
    ELSE LET sorted == sort_by_record_position(Front(list))
             x == Last(list)
             k == Cardinality({i \in 1..Len(sorted) :
                                  sorted[i].record_position <= x.record_position})
         IN  SubSeq(sorted, 1, k) \o <<x>> \o SubSeq(sorted, k + 1, Len(sorted))

\* The loop over the sorted patch records: one pool of ISO_BLOCK_SIZE bytes per
\* directory block that holds a patched record, read from the image;
\* [status, record_block_list, pools], a block being [record_lba, pool].
RECURSIVE record_blocks(_, _, _, _, _)
record_blocks(image, records, i, record_block_list, P) ==
    IF i > Len(records)
    THEN [status |-> "SUCCESS", record_block_list |-> record_block_list, pools |-> P]
    ELSE LET record_lba == records[i].record_position \div ISO_BLOCK_SIZE
             record_lba_pos == record_lba * ISO_BLOCK_SIZE
         IN  IF record_block_list # <<>> /\ Last(record_block_list).record_lba = record_lba
             THEN record_blocks(image, records, i + 1, record_block_list, P)
             ELSE IF iso_read(image, record_lba_pos, ISO_BLOCK_SIZE) # "SUCCESS"
             THEN [status |-> "DEVICE_ERROR", record_block_list |-> record_block_list,
                   pools |-> Append(P, ISO_BLOCK_SIZE)]
             ELSE record_blocks(image, records, i + 1,
                                Append(record_block_list,
                                       [record_lba |-> record_lba, pool |-> Len(P) + 1]),
                                Append(P, ISO_BLOCK_SIZE))

\* LoopMappingItem::end_sector of the last item, 0 for an empty table
prev_end_sector(table) ==
    IF table = <<>> THEN 0 ELSE Last(table).start_sector + Last(table).num_sectors

\* A table loop that puts no File segment before a record block.
RECURSIVE image_table_no_gap_fill(_, _, _)
image_table_no_gap_fill(record_block_list, i, table) ==
    IF i > Len(record_block_list) THEN table
    ELSE image_table_no_gap_fill(record_block_list, i + 1,
            Append(table,
                   PoolItem(record_block_list[i].pool,
                            record_block_list[i].record_lba * SectorsPerBlock,
                            SectorsPerBlock, 0)))

\* The loop over record_block_list that builds the table of the image region
RECURSIVE image_table(_, _, _)
image_table(record_block_list, i, table) ==
    IF i > Len(record_block_list) THEN table
    ELSE LET record_sector == record_block_list[i].record_lba * SectorsPerBlock
             filled == IF prev_end_sector(table) < record_sector
                       THEN Append(table,
                                   FileItem(ImageFile, prev_end_sector(table),
                                            record_sector - prev_end_sector(table),
                                            prev_end_sector(table)))
                       ELSE table
         IN  image_table(record_block_list, i + 1,
                         Append(filled,
                                PoolItem(record_block_list[i].pool, record_sector,
                                         SectorsPerBlock, 0)))

\* The table attach_loop_device hands to set_mapping_table
final_table(record_block_list, total_sectors, append_item_list) ==
    With(image_table(record_block_list, 1, <<>>), LAMBDA table :
        (IF prev_end_sector(table) < total_sectors
         THEN Append(table, FileItem(ImageFile, prev_end_sector(table),
                                     total_sectors - prev_end_sector(table),
                                     prev_end_sector(table)))
         ELSE table) \o append_item_list)

----------------------------------------------------------------------------
(* shell-split: Split, Arg::iter and Arg::decode.  A command line is a     *)
(* sequence of elements; an element of a str occupies as many index        *)
(* positions as its UTF-8 encoding has bytes, an element of a slice one.   *)
(* Indices are the ones as_iter yields: the offset of the element's first  *)
(* index position, from 0.                                                 *)

\* Indexable::SPACE, CARET, QUOTE and NUL
SPACE == " "
CARET == "^"
QUOTE == "\""
NUL == "NUL"
\* An ordinary element of one index position, and a char of a str that takes two
Plain == "a"
Wide == "U+00E9"

ChWidth(ch) == IF ch = Wide THEN 2 ELSE 1

\* The index of element i of t (of the end of t for i = Len(t) + 1)
RECURSIVE Offset(_, _)
Offset(t, i) == IF i <= 1 THEN 0 ELSE Offset(t, i - 1) + ChWidth(t[i - 1])

\* Option<usize>::None
NoIdx == -1

\* A panic of the slicing (a byte index that is not a char boundary)
SlicePanic == <<"PANIC">>

\* &t[b..e] by index positions
Slice(t, b, e) ==
    IF /\ b <= e
       /\ \E i \in 1..(Len(t) + 1) : Offset(t, i) = b
       /\ \E i \in 1..(Len(t) + 1) : Offset(t, i) = e
    THEN SubSeq(t, CHOOSE i \in 1..(Len(t) + 1) : Offset(t, i) = b,
                (CHOOSE i \in 1..(Len(t) + 1) : Offset(t, i) = e) - 1)
    ELSE SlicePanic

\* The iterator of a Split: pos is the element self.iter yields next
NewSplit == [pos |-> 1, fused |-> FALSE]

\* self.iter.peek().map(|(idx, _)| *idx)
peek_idx(t, it) == IF it.pos <= Len(t) THEN Offset(t, it.pos) ELSE NoIdx

\* Split::read_ch: [some, idx, ch, it]
read_ch(t, it) ==
    IF it.fused THEN [some |-> FALSE, idx |-> NoIdx, ch |-> NUL, it |-> it]
    ELSE IF it.pos <= Len(t)
    THEN [some |-> TRUE, idx |-> Offset(t, it.pos), ch |-> t[it.pos],
          it |-> [pos |-> it.pos + 1, fused |-> t[it.pos] = NUL]]
    ELSE [some |-> FALSE, idx |-> NoIdx, ch |-> NUL, it |-> [it EXCEPT !.fused = TRUE]]

\* Split::read_space
RECURSIVE read_space(_, _)
read_space(t, it) ==
    IF it.pos > Len(t) \/ t[it.pos] # SPACE THEN it
    ELSE read_space(t, read_ch(t, it).it)

\* Ch::Found { idx, ch } and Ch::NotFound(end)
Found(idx, ch, it) == [found |-> TRUE, idx |-> idx, ch |-> ch, it |-> it]
NotFound(end, it) == [found |-> FALSE, idx |-> end, ch |-> NUL, it |-> it]

\* Split::find_next_ch(pat)
RECURSIVE find_next_ch(_, _, _)
find_next_ch(t, it, pat) ==
    With(read_ch(t, it), LAMBDA r :
        IF ~r.some THEN NotFound(peek_idx(t, r.it), r.it)
        ELSE IF r.ch = CARET /\ ~read_ch(t, r.it).some
        THEN NotFound(peek_idx(t, read_ch(t, r.it).it), read_ch(t, r.it).it)
        ELSE IF r.ch \in pat THEN Found(r.idx, r.ch, r.it)
        ELSE find_next_ch(t, IF r.ch = CARET THEN read_ch(t, r.it).it ELSE r.it, pat))

\* Split::find_end_of_arg: [st, end, it] with st "ok" or "err"
RECURSIVE find_end_of_arg(_, _)
find_end_of_arg(t, it) ==
    With(find_next_ch(t, it, {SPACE, QUOTE, NUL}), LAMBDA c :
        IF ~c.found THEN [st |-> "ok", end |-> c.idx, it |-> c.it]
        ELSE IF c.ch # QUOTE THEN [st |-> "ok", end |-> c.idx, it |-> c.it]
        ELSE With(find_next_ch(t, c.it, {QUOTE}), LAMBDA q :
                 IF q.found THEN find_end_of_arg(t, q.it)
                 ELSE [st |-> "err", end |-> NoIdx, it |-> q.it]))

\* Option<Arg>: the raw argument and the indices it was cut at
NoArg(it) ==
    [arg |-> [some |-> FALSE, raw_arg |-> <<>>, begin |-> NoIdx, end |-> NoIdx], it |-> it]
SomeArg(t, begin, end, it) ==
    [arg |-> [some |-> TRUE, raw_arg |-> Slice(t, begin, end), begin |-> begin, end |-> end],
     it |-> it]

\* <Split as Iterator>::next
next(t, it) ==
    IF it.fused THEN NoArg(it)
    ELSE With(read_space(t, it), LAMBDA sp :
        IF peek_idx(t, sp) = NoIdx THEN NoArg(sp)
        ELSE With(find_end_of_arg(t, sp), LAMBDA e :
                 IF e.st = "err" THEN NoArg([e.it EXCEPT !.fused = TRUE])
                 ELSE IF e.end # NoIdx
                 THEN IF peek_idx(t, sp) = e.end THEN NoArg([e.it EXCEPT !.fused = TRUE])
                      ELSE SomeArg(t, peek_idx(t, sp), e.end, e.it)
                 ELSE SomeArg(t, peek_idx(t, sp), Offset(t, Len(t) + 1), e.it)))

\* ArgIter::next collected until its first None (Arg::iter().collect(),
\* decode_to_owned)
RECURSIVE decode_to_owned_from(_, _)
decode_to_owned_from(raw_arg, i) ==
    IF i > Len(raw_arg) THEN <<>>
    ELSE IF raw_arg[i] = QUOTE THEN decode_to_owned_from(raw_arg, i + 1)
    ELSE IF raw_arg[i] = CARET
    THEN IF i + 1 > Len(raw_arg) THEN <<>>
         ELSE <<raw_arg[i + 1]>> \o decode_to_owned_from(raw_arg, i + 2)
    ELSE <<raw_arg[i]>> \o decode_to_owned_from(raw_arg, i + 1)

decode_to_owned(raw_arg) == decode_to_owned_from(raw_arg, 1)

\* The loop of Arg::decode over the elements: [first, last, count, to_owned],
\* 0 for None
RECURSIVE decode_scan(_, _, _, _)
decode_scan(raw_arg, i, first, last) ==
    IF i > Len(raw_arg)
    THEN [first |-> first, last |-> last, count |-> Len(raw_arg), to_owned |-> FALSE]
    ELSE IF last # 0 THEN [first |-> first, last |-> last, count |-> i, to_owned |-> TRUE]
    ELSE IF raw_arg[i] = QUOTE
    THEN IF first = 0
         THEN IF i # 1 THEN [first |-> i, last |-> last, count |-> i, to_owned |-> TRUE]
              ELSE decode_scan(raw_arg, i + 1, i, last)
         ELSE decode_scan(raw_arg, i + 1, first, i)
    ELSE IF raw_arg[i] = CARET
    THEN [first |-> first, last |-> last, count |-> i, to_owned |-> TRUE]
    ELSE decode_scan(raw_arg, i + 1, first, last)

\* Arg::decode: the elements of the Cow it returns, or SlicePanic
decode(raw_arg) ==
    With(decode_scan(raw_arg, 1, 0, 0), LAMBDA d :
        IF d.to_owned THEN decode_to_owned(raw_arg)
        ELSE IF d.first = 1 /\ d.last = d.count THEN Slice(raw_arg, 1, d.count - 1)
        ELSE raw_arg)

----------------------------------------------------------------------------
(* lopatch's ISO9660 reader: ISO9660::new, find_pvd_position and the loop  *)
(* of walk_record over the records of a directory.  An image is the        *)
(* sequence of its volume descriptors from block 16 on, each               *)
(* [vd_type, cd001, vd_ver]; a block behind the last of them cannot be     *)
(* read.                                                                   *)

\* ISO9660::find_pvd_position from the block `start` on: [status, position]
RECURSIVE find_pvd_position(_, _)
find_pvd_position(vds, start) ==
    IF start - 16 + 1 > Len(vds) THEN [status |-> "DEVICE_ERROR", position |-> 0]
    ELSE With(vds[start - 16 + 1], LAMBDA vd :
        IF ~vd.cd001 /\ vd.vd_ver # 1 THEN [status |-> "ABORTED", position |-> 0]
        ELSE IF vd.vd_type = 255 THEN [status |-> "NOT_FOUND", position |-> 0]
        ELSE IF vd.vd_type = 1 THEN [status |-> "SUCCESS", position |-> start * ISO_BLOCK_SIZE]
        ELSE find_pvd_position(vds, start + 1))

\* The image file of a sequence of volume descriptors, as ISO9660::new sees it
DescriptorImage(vds) ==
    [file_size |-> (16 + Len(vds)) * ISO_BLOCK_SIZE,
     cd001 |-> IF vds = <<>> THEN FALSE ELSE vds[1].cd001,
     vd_ver |-> IF vds = <<>> THEN 0 ELSE vds[1].vd_ver]

\* No record passed to the callback
NoVisit == [some |-> FALSE, position |-> 0, size |-> 0]

\* One round of the loop of walk_record over the directory at extent_lba:
\* w is [position, block_num, count, visit, status]; read is the status of
\* reading the size byte and size the byte read.  visit is the record
\* walk_record is called on in this round, if any.
walk_step(w, extent_lba, read, size) ==
    IF read # "SUCCESS" THEN [w EXCEPT !.status = read, !.visit = NoVisit]
    ELSE IF size = 0 \/ (w.position % ISO_BLOCK_SIZE) + 34 > ISO_BLOCK_SIZE
    THEN [w EXCEPT !.count = @ + 1, !.block_num = @ + 1,
                   !.position = (w.block_num + 1 + extent_lba) * ISO_BLOCK_SIZE,
                   !.visit = NoVisit]
    ELSE [w EXCEPT !.count = @ + 1,
                   !.visit = IF w.count + 1 > 2
                             THEN [some |-> TRUE, position |-> w.position, size |-> size]
                             ELSE NoVisit,
                   !.position = @ + size,
                   !.block_num = ((w.position + size) \div ISO_BLOCK_SIZE) - extent_lba]

----------------------------------------------------------------------------
(* Initial values shared by the specifications. *)

DevInit == NewLoopContext(0)
IoInit == [op |-> "none", status |-> "none", nops |-> 0]
RetInit == [op |-> "none", status |-> "none", unit |-> 0, handle |-> NullHandle,
            tried |-> {}]
CtxsInit == [h \in ChildHandles |-> CtxNone]
\* The locals of attach_loop_device before the walk
NewPlanLocals ==
    [append_item_start |-> 0, append_item_list |-> <<>>, patch_record_list |-> <<>>,
     pools |-> <<>>, fold |-> [actions |-> <<>>, replace |-> NoAction, appends |-> <<>>]]
NoImage == [file_size |-> 0, cd001 |-> FALSE, vd_ver |-> 0]
NoCall == [op |-> "none", read_only |-> FALSE, table |-> <<>>]
\* No walk begun
NoWalk == [position |-> 0, block_num |-> 0, count |-> 0, visit |-> NoVisit, status |-> "none"]
\* No image opened
IsoIdle ==
    [pc |-> "idle", vds |-> <<>>, new |-> "none", pvd |-> [status |-> "none", position |-> 0],
     extent_lba |-> 0, num_blocks |-> 0, w |-> NoWalk]
\* No argument decoded
NotDecoded == [done |-> FALSE, decoded |-> <<>>, owned |-> <<>>]
\* No Split made
SplitIdle ==
    [command_line |-> <<>>, it |-> NewSplit, out |-> NoArg(NewSplit).arg, nones |-> 0,
     dec |-> NotDecoded]
PlanIdle ==
    [pc |-> "idle", read_only |-> FALSE, image |-> NoImage, patch |-> <<>>,
     forced |-> FALSE, L |-> NewPlanLocals, nfiles |-> 0, blocks |-> <<>>, call |-> NoCall,
     status |-> "none"]

----------------------------------------------------------------------------
(* SpecCtl: the controller after install_loop_control succeeded on the     *)
(* image handle, driven by its four loop-control calls, driver-binding     *)
(* stop, the unload path, and media activation / clear on its children.    *)

CtlState == [db |-> protos, opened |-> opened, list |-> loop_list, ctxs |-> ctxs]

Commit(r, op, unit_number) ==
    /\ protos' = r.S.db
    /\ opened' = r.S.opened
    /\ loop_list' = r.S.list
    /\ ctxs' = r.S.ctxs
    /\ ctl' = IF r.st = "panic" THEN "panicked"
              ELSE IF op = "unload" /\ r.st = "ok" THEN "unloaded" ELSE ctl
    /\ ret' = [op |-> op, status |-> IF r.st = "panic" THEN "PANIC" ELSE r.status,
               unit |-> unit_number, handle |-> r.handle, tried |-> r.tried]
    /\ UNCHANGED <<ptVars, devVars, appVars>>

\* The children in the list whose state was freed: reading them is undefined.
Dangling == {h \in ChildHandles :
                ctxs[h].alloc = "freed" /\ \E i \in 1..Len(loop_list) : loop_list[i].handle = h}

UbOutcomes == IF Dangling = {} THEN {"intact"} ELSE {"intact", "crash"}

\* The faults tried on one remove of a stop or unload: the first uninstall
\* (BLOCK_IO) refused, the last uninstall (DEVICE_PATH) refused.  A stop or an
\* unload ends at its first failing child, so one failing child is enough.
StopFaults == {{<<"uninstall", "BLOCK_IO">>}, {<<"uninstall", "DEVICE_PATH">>}}
\* The faults tried on the controller's own interfaces during unload.
CtlFaultSets == {{}, {<<"uninstall", "LOOP_CONTROL">>}, {<<"uninstall", "DEVICE_PATH">>},
                 {<<"uninstall", "DEVICE_PATH">>, <<"install", "LOOP_CONTROL">>}}

GetFree ==
    /\ ctl = "installed"
    /\ \E nullarg \in BOOLEAN, F \in AddFaultSets, garbage \in SUBSET Dangling :
          /\ nullarg => F = {} /\ garbage = {}
          /\ Commit(get_free(CtlState, nullarg, F, garbage), "get_free", 0)

Add ==
    /\ ctl = "installed"
    /\ \E nullarg \in BOOLEAN, unit_number \in Units, F \in AddFaultSets :
          /\ nullarg => F = {} /\ unit_number = 0
          /\ Commit(add(CtlState, nullarg, unit_number, F), "add", unit_number)

Find ==
    /\ ctl = "installed"
    /\ \E nullarg \in BOOLEAN, unit_number \in Units :
          /\ nullarg => unit_number = 0
          /\ Commit(find(CtlState, nullarg, unit_number), "find", unit_number)

Remove ==
    /\ ctl = "installed"
    /\ \E nullarg \in BOOLEAN, handle \in {NullHandle} \cup Handles, F \in RemoveFaultSets,
          ub \in UbOutcomes :
          /\ nullarg => F = {} /\ handle = NullHandle /\ ub = "intact"
          /\ Commit(remove(CtlState, nullarg, handle, F, ub), "remove",
                    UnitOf(loop_list, handle))

Stop ==
    /\ ctl = "installed"
    /\ \E nullarg \in BOOLEAN, children \in SeqsUpTo({NullHandle} \cup ChildHandles, MaxStop),
          bad \in 0..MaxStop, Fbad \in StopFaults, ub \in UbOutcomes :
          /\ nullarg => children = <<>> /\ ub = "intact"
          /\ bad <= Len(children)
          /\ bad = 0 => Fbad = {<<"uninstall", "BLOCK_IO">>}
          /\ Commit(stop(CtlState, nullarg, children,
                         [i \in 1..Len(children) |-> IF i = bad THEN Fbad ELSE {}], ub),
                    "stop", 0)

Unload ==
    /\ ctl = "installed"
    /\ \E getfail \in BOOLEAN, bad \in {NullHandle} \cup ChildHandles, Fbad \in StopFaults,
          Fc \in CtlFaultSets, ub \in UbOutcomes :
          /\ getfail => bad = NullHandle /\ Fc = {} /\ ub = "intact"
          /\ bad = NullHandle => Fbad = {<<"uninstall", "BLOCK_IO">>}
          /\ bad # NullHandle => Fc = {}
          /\ Commit(uninstall_loop_control(CtlState, getfail,
                        [h \in ChildHandles |-> IF h = bad THEN Fbad ELSE {}], Fc, ub),
                    "unload", 0)

\* A call through the loopback interface of child h: on a live state the device
\* operation; on a freed state the write lands in freed memory or the machine stops.
DeviceCall(h, op, r) ==
    /\ LoopPairs(protos, h) # {}
    /\ \/ /\ ctxs[h].alloc = "live"
          /\ ctxs' = [ctxs EXCEPT ![h] = CtxLive(r.c)]
          /\ ctl' = ctl
          /\ ret' = [op |-> op, status |-> r.status, unit |-> 0, handle |-> h, tried |-> {}]
       \/ /\ ctxs[h].alloc = "freed"
          /\ ctxs' = ctxs
          /\ \E crash \in BOOLEAN :
                /\ ctl' = IF crash THEN "panicked" ELSE ctl
                /\ ret' = [op |-> op, status |-> IF crash THEN "PANIC" ELSE r.status,
                           unit |-> 0, handle |-> h, tried |-> {}]
    /\ UNCHANGED <<protos, opened, loop_list, ptVars, devVars, appVars>>

CtlSetFile ==
    /\ ctl = "installed"
    /\ \E h \in ChildHandles, connect \in {"SUCCESS", "NOT_FOUND"} :
          /\ ctxs[h].c.media_id < MaxActivations
          /\ DeviceCall(h, "set_file",
                        set_file(ctxs[h].c, NoPools, TRUE, 1, connect, overflow_checks))

CtlClear ==
    /\ ctl = "installed"
    /\ \E h \in ChildHandles :
          DeviceCall(h, "clear", clear(ctxs[h].c, NoPools, "SUCCESS"))

CtlInit ==
    /\ protos = [h \in Handles |-> IF h = BusHandle THEN Range(CtlProtocols) \cup {LoadedImage}
                                   ELSE {}]
    /\ pt = PtIdle
    /\ loop_list = <<>>
    /\ ctxs = CtxsInit
    /\ opened = {}
    /\ ctl = "installed"
    /\ ret = RetInit
    /\ dev = DevInit
    /\ fsok = TRUE
    /\ io = IoInit
    /\ pools = NoPools
    /\ cleared = FALSE
    /\ overflow_checks = TRUE
    /\ iso = IsoIdle
    /\ plan = PlanIdle
    /\ split = SplitIdle

CtlNext == GetFree \/ Add \/ Find \/ Remove \/ Stop \/ Unload \/ CtlSetFile \/ CtlClear

SpecCtl == CtlInit /\ [][CtlNext]_vars

----------------------------------------------------------------------------
(* SpecDev: one loopback device, driven through its loopback interface     *)
(* (set_file, set_mapping_table, clear) and its block-I/O interface        *)
(* (read_blocks, write_blocks, flush_blocks), while the file system under  *)
(* its file targets may be reconnected.  A panic ends the run.             *)

\* Mapping items passed to set_mapping_table: zero ranges and ranges of file 1
\* that tile, leave a gap, are empty, name a missing or too small file, start
\* past the file's end, or end past the last sector number.
TableItems ==
    {ZeroItem(0, 2), ZeroItem(2, 1), ZeroItem(1, 1), ZeroItem(0, 0),
     ZeroItem(2, U64Mod - 1),
     FileItem(1, 0, 2, 0), FileItem(1, 2, 2, 0), FileItem(1, 0, 1, 3),
     FileItem(2, 0, 1, 0), FileItem(NoFile, 0, 1, 0)}

\* Block addresses read and written: in range, past the end, and one whose byte
\* offset does not fit the word.
Lbas == {0, 1, 2, U64Mod \div SECTOR_SIZE}
\* Buffer sizes in bytes: empty, not a block multiple, one block, two blocks.
BufferSizes == {0, SECTOR_SIZE \div 2, SECTOR_SIZE, 2 * SECTOR_SIZE}
\* Media ids a caller passes: the current one and a stale one.
MediaIds(c) == {c.media_id, (c.media_id + 1) % MediaIdMod}
\* The requests that differ in what the call does: with a null `this` nothing
\* else is looked at, with a null buffer no target is reached, and a short
\* read needs a file to read from.
Request(c, this_null, media_id, lba, buffer_null, fileio) ==
    /\ this_null => media_id = c.media_id /\ lba = 0 /\ ~buffer_null /\ fileio = "ok"
    /\ buffer_null => lba = 0 /\ fileio = "ok"
    /\ fileio = "fail" => \E i \in 1..Len(c.table) : c.table[i].target.kind = "File"
\* A read buffer before the read, and the data a write carries: sector j of the
\* buffer holds j.
StaleBuffer(buffer_size) == [j \in 1..(buffer_size \div SECTOR_SIZE) |-> Stale]
CountBuffer(buffer_size) == [j \in 1..(buffer_size \div SECTOR_SIZE) |-> j]

DevCommit(r, op) ==
    /\ dev' = r.c
    /\ pools' = r.P
    /\ io' = [op |-> op, status |-> IF r.st = "panic" THEN "PANIC" ELSE r.status,
              nops |-> 0]
    /\ UNCHANGED <<protos, ptVars, ctlVars, fsok, cleared, overflow_checks, appVars>>

SetFile ==
    /\ io.status # "PANIC"
    /\ \E read_only \in BOOLEAN, file \in {NoFile} \cup FileIds,
          connect \in {"SUCCESS", "NOT_FOUND"} :
          DevCommit(set_file(dev, pools, read_only, file, connect, overflow_checks),
                    "set_file")

SetMappingTable ==
    /\ io.status # "PANIC"
    /\ \E read_only \in BOOLEAN, table \in SeqsUpTo(TableItems, MaxItems),
          connect \in {"SUCCESS", "NOT_FOUND"} :
          DevCommit(set_mapping_table(dev, pools, read_only, table, connect,
                                      overflow_checks), "set_mapping_table")

Clear ==
    /\ io.status # "PANIC"
    /\ \E disconnect \in {"SUCCESS", "NOT_FOUND"} :
          DevCommit(clear(dev, pools, disconnect), "clear")

ReadBlocks ==
    /\ io.status # "PANIC"
    /\ \E this_null \in BOOLEAN, media_id \in MediaIds(dev), lba \in Lbas,
          buffer_size \in BufferSizes, buffer_null \in BOOLEAN, fileio \in {"ok", "fail"} :
          /\ Request(dev, this_null, media_id, lba, buffer_null, fileio)
          /\ With(read_blocks(dev, pools, this_null, media_id, lba, buffer_size, buffer_null,
                              StaleBuffer(buffer_size), fsok, fileio, overflow_checks),
                  LAMBDA r : DevCommit(r, "read_blocks"))

WriteBlocks ==
    /\ io.status # "PANIC"
    /\ \E this_null \in BOOLEAN, media_id \in MediaIds(dev), lba \in Lbas,
          buffer_size \in BufferSizes, buffer_null \in BOOLEAN :
          /\ Request(dev, this_null, media_id, lba, buffer_null, "ok")
          /\ With(write_blocks(dev, pools, this_null, media_id, lba, buffer_size,
                               buffer_null, CountBuffer(buffer_size), fsok, "ok",
                               overflow_checks),
                  LAMBDA r : DevCommit(r, "write_blocks"))

FlushBlocks ==
    /\ io.status # "PANIC"
    /\ \E this_null \in BOOLEAN :
          With(flush_blocks(dev, pools, this_null, fsok),
               LAMBDA r : DevCommit(r, "flush_blocks"))

\* The file system driver is disconnected from, or connected again to, the
\* device that holds the files: validate_handle_protocol changes its answer.
FsReconnect ==
    /\ io.status # "PANIC"
    /\ fsok' = ~fsok
    /\ UNCHANGED <<protos, ptVars, ctlVars, dev, io, pools, cleared, overflow_checks, appVars>>

DevSpecInit ==
    /\ protos = NoDb
    /\ pt = PtIdle
    /\ loop_list = <<>>
    /\ ctxs = CtxsInit
    /\ opened = {}
    /\ ctl = "installed"
    /\ ret = RetInit
    /\ dev = DevInit
    /\ fsok = TRUE
    /\ io = IoInit
    /\ pools = NoPools
    /\ cleared = FALSE
    /\ overflow_checks \in BOOLEAN
    /\ iso = IsoIdle
    /\ plan = PlanIdle
    /\ split = SplitIdle

DevNext ==
    SetFile \/ SetMappingTable \/ Clear \/ ReadBlocks \/ WriteBlocks \/ FlushBlocks
    \/ FsReconnect

SpecDev == DevSpecInit /\ [][DevNext]_vars

----------------------------------------------------------------------------
(* SpecIo: one loopback device with the pools of its loopback interface    *)
(* (alloc_pool, free_pool, set_mapping_table over zero, pool and file      *)
(* ranges, set_file, clear) and block I/O that moves data; a second        *)
(* device allocates and frees pools too.  A panic ends the run.            *)

\* The second device: only its identity matters, as the owner of pools.
OtherUnit == 1
OtherDev == NewLoopContext(OtherUnit)
IoDevices == {DevInit, OtherDev}

\* The pools whose payload pointer a caller holds
HeldPools(P) == {p \in PoolIds : P[p].state = "held"}

\* The calls of alloc_pool: <<device, size, this_null, buffer_null>>.  The
\* device under test asks for one sector, two sectors, a size larger than
\* isize::MAX and a size that does not fit the word together with the header;
\* the other device asks for one sector; a call passes a null pointer.
AllocCalls ==
    {<<DevInit, SECTOR_SIZE, FALSE, FALSE>>, <<DevInit, 2 * SECTOR_SIZE, FALSE, FALSE>>,
     <<DevInit, U64Mod \div 2, FALSE, FALSE>>,
     <<DevInit, U64Mod - (PoolHeaderSize \div 2), FALSE, FALSE>>,
     <<OtherDev, SECTOR_SIZE, FALSE, FALSE>>,
     <<DevInit, SECTOR_SIZE, TRUE, FALSE>>, <<DevInit, SECTOR_SIZE, FALSE, TRUE>>}

\* Mapping items passed to set_mapping_table: ranges of pools 1 and 2, of the
\* zero target and of file 1 that tile, leave a gap, are empty, are larger than
\* a one-sector pool, name a missing file or carry a misaligned pointer.
IoItems ==
    {ZeroItem(0, 1), FileItem(1, 1, 1, 1), FileItem(NoFile, 0, 1, 0),
     PoolItem(1, 0, 1, 0), PoolItem(1, 0, 2, 0), PoolItem(1, 1, 1, 1), PoolItem(1, 0, 0, 0),
     PoolItem(2, 1, 1, 0), PoolItem(2, 2, 1, 0),
     PoolItem(MisalignedPtr, 0, 1, 0)}

\* The tables a caller may pass: a payload pointer it names is one it holds,
\* and no pointer is named twice.
IoTables(P) ==
    {t \in SeqsUpTo(IoItems, MaxItems) :
        /\ \A i \in 1..Len(t) : ItemPool(t[i]) \subseteq HeldPools(P)
        /\ \A i, j \in 1..Len(t) : i # j => ItemPool(t[i]) \cap ItemPool(t[j]) = {}}

IoLbas == {0, 1, 2}
IoWriteLbas == {0, 1}
IoBufferSizes == {SECTOR_SIZE, 2 * SECTOR_SIZE, 3 * SECTOR_SIZE}

\* A call on the device returns r: after `op`, nops calls on targets were made.
IoCommit(r, op, nops) ==
    /\ dev' = r.c
    /\ pools' = r.P
    /\ io' = [op |-> op, status |-> IF r.st = "panic" THEN "PANIC" ELSE r.status,
              nops |-> nops]
    /\ cleared' = IF op = "clear" THEN TRUE
                  ELSE IF /\ op \in {"set_file", "set_mapping_table"}
                          /\ r.st = "ok" /\ r.status = "SUCCESS" THEN FALSE
                  ELSE cleared
    /\ UNCHANGED <<protos, ptVars, ctlVars, fsok, overflow_checks, appVars>>

\* A call of alloc_pool or free_pool on either device returns r.
PoolCommit(r, op) ==
    /\ pools' = r.P
    /\ io' = [op |-> op, status |-> IF r.st = "panic" THEN "PANIC" ELSE r.status,
              nops |-> 0]
    /\ UNCHANGED <<protos, ptVars, ctlVars, dev, fsok, cleared, overflow_checks, appVars>>

AllocPool ==
    /\ io.status # "PANIC"
    /\ \E p \in PoolIds, call \in AllocCalls :
          /\ pools[p].state = "none"
          /\ \A q \in PoolIds : q < p => pools[q].state # "none"
          /\ PoolCommit(alloc_pool(call[1], pools, call[3], call[2], call[4], p,
                                  overflow_checks), "alloc_pool")

\* free_pool on either device, of a pointer the caller holds, a misaligned
\* pointer or a null pointer.
FreePool ==
    /\ io.status # "PANIC"
    /\ \E c \in IoDevices, buffer \in HeldPools(pools) \cup {NullHandle, MisalignedPtr},
          this_null \in BOOLEAN :
          /\ this_null => buffer = NullHandle /\ c = DevInit
          /\ PoolCommit(free_pool(c, pools, this_null, buffer),
                        IF c = DevInit THEN "free_pool" ELSE "free_pool_other")

IoSetFile ==
    /\ io.status # "PANIC"
    /\ dev.media_id < MaxMedia
    /\ \E read_only \in BOOLEAN, connect \in {"SUCCESS", "NOT_FOUND"} :
          IoCommit(set_file(dev, pools, read_only, 1, connect, overflow_checks),
                   "set_file", 0)

IoSetMappingTable ==
    /\ io.status # "PANIC"
    /\ dev.media_id < MaxMedia
    /\ \E read_only \in BOOLEAN, table \in IoTables(pools),
          connect \in {"SUCCESS", "NOT_FOUND"} :
          IoCommit(set_mapping_table(dev, pools, read_only, table, connect,
                                     overflow_checks), "set_mapping_table", 0)

IoClear ==
    /\ io.status # "PANIC"
    /\ \E disconnect \in {"SUCCESS", "NOT_FOUND"} :
          IoCommit(clear(dev, pools, disconnect), "clear", 0)

IoRead ==
    /\ io.status # "PANIC"
    /\ \E media_id \in MediaIds(dev), lba \in IoLbas, buffer_size \in IoBufferSizes :
          With(read_blocks(dev, pools, FALSE, media_id, lba, buffer_size, FALSE,
                           StaleBuffer(buffer_size), fsok, "ok", overflow_checks),
               LAMBDA r : IoCommit(r, "read_blocks", Len(r.ops)))

IoWrite ==
    /\ io.status # "PANIC"
    /\ \E media_id \in MediaIds(dev), lba \in IoWriteLbas, buffer_size \in IoBufferSizes :
          With(write_blocks(dev, pools, FALSE, media_id, lba, buffer_size, FALSE,
                            CountBuffer(buffer_size), fsok, "ok", overflow_checks),
               LAMBDA r : IoCommit(r, "write_blocks", Len(r.ops)))

IoSpecInit ==
    /\ protos = NoDb
    /\ pt = PtIdle
    /\ loop_list = <<>>
    /\ ctxs = CtxsInit
    /\ opened = {}
    /\ ctl = "installed"
    /\ ret = RetInit
    /\ dev = DevInit
    /\ fsok = TRUE
    /\ io = IoInit
    /\ pools = NoPools
    /\ cleared = FALSE
    /\ overflow_checks \in BOOLEAN
    /\ iso = IsoIdle
    /\ plan = PlanIdle
    /\ split = SplitIdle

IoNext ==
    AllocPool \/ FreePool \/ IoSetFile \/ IoSetMappingTable \/ IoClear \/ IoRead \/ IoWrite

SpecIo == IoSpecInit /\ [][IoNext]_vars

----------------------------------------------------------------------------
(* SpecAttach: lopatch's attach_loop_device on one image file, from its    *)
(* arguments to the call that activates the loopback device: the           *)
(* detection of ISO9660, the walk of the directory records (one step per   *)
(* record), the record blocks and the mapping table.                       *)

\* Image sizes in bytes: eighteen ISO blocks, eighteen and a half, and a file
\* too short to hold a volume descriptor.
ImageSizes == {18 * ISO_BLOCK_SIZE, 18 * ISO_BLOCK_SIZE + 2 * SECTOR_SIZE, ISO_BLOCK_SIZE}
\* What the 7 bytes at block 16 hold: <<identifier is CD001, version>>
Descriptors == {<<TRUE, 1>>, <<FALSE, 1>>, <<FALSE, 2>>}

\* The rules of the command line: --append, --replace and --meta-cpio actions
\* behind four --search options, and one that names a file that does not open.
PatchRules ==
    << <<AppendAction(1)>>, <<ReplaceAction(3), MetaCpio>>, <<ReplaceAction(2)>>,
       <<AppendAction(2), MetaCpio>>, <<AppendAction(NoFile)>> >>
\* The rule sets a file of the image matches
MatchSets == {{}, {1}, {1, 2}, {1, 2, 3}, {2, 4}, {3, 4}, {5}}

\* Size in bytes of a directory record of the model (34 and the identifier)
RecordSize == 48
\* Positions of directory records: in the first block of the image, two in
\* block 17 (the last whole block of the image), one in block 18.
RecordPositions ==
    {0, 17 * ISO_BLOCK_SIZE, 17 * ISO_BLOCK_SIZE + RecordSize, 18 * ISO_BLOCK_SIZE}
\* <<extent_position, extent_size>> of a file: one block and a rest inside the
\* image, and one that runs past its end.
Extents == {<<10 * ISO_BLOCK_SIZE, ISO_BLOCK_SIZE + 100>>,
            <<17 * ISO_BLOCK_SIZE, ISO_BLOCK_SIZE + 100>>}

WalkInfos ==
    {[is_dir |-> FALSE, matches |-> m, record_position |-> rp, extent_position |-> e[1],
      extent_size |-> e[2]] : m \in MatchSets, rp \in RecordPositions, e \in Extents}
    \cup {[is_dir |-> TRUE, matches |-> {1}, record_position |-> 17 * ISO_BLOCK_SIZE,
           extent_position |-> 17 * ISO_BLOCK_SIZE, extent_size |-> ISO_BLOCK_SIZE]}

PlanDone(pl, status) == [pl EXCEPT !.pc = "done", !.status = status]

\* attach_loop_device up to the walk.  acquire: the status of finding the
\* loopback handle, opening its interface, clearing it and opening the image
\* file; pvd: of find_root_record; set: of the device's set_file.
attach_start(pl, acquire, pvd, set) ==
    LET iso_ok == ISO9660_new(pl.image)
        read_only == forced_read_only(iso_ok, pl.read_only)
    IN  IF acquire # "SUCCESS" THEN PlanDone(pl, acquire)
        ELSE IF pl.patch = <<>>
        THEN PlanDone([pl EXCEPT !.forced = read_only,
                                 !.call = [op |-> "set_file",
                                           read_only |-> iso_ok \/ read_only,
                                           table |-> <<>>]],
                      set)
        ELSE IF ~iso_ok
        THEN PlanDone([pl EXCEPT !.forced = read_only],
                      IF iso_read(pl.image, 16 * ISO_BLOCK_SIZE, 7) = "SUCCESS"
                      THEN "ABORTED" ELSE "DEVICE_ERROR")
        ELSE IF pvd # "SUCCESS" THEN PlanDone([pl EXCEPT !.forced = read_only], pvd)
        ELSE [pl EXCEPT !.pc = "walk", !.forced = read_only,
                        !.L.append_item_start = pl.image.file_size \div SECTOR_SIZE]

\* walk_record on one record below the root: the record is read, then the
\* callback runs on it.
walk_record(pl, info) ==
    IF iso_read(pl.image, info.record_position, RecordSize) # "SUCCESS"
    THEN PlanDone(pl, "DEVICE_ERROR")
    ELSE With(patch_file(pl.L, pl.image, pl.patch, info), LAMBDA r :
             IF r.st # "ok" THEN PlanDone([pl EXCEPT !.L = r.L], r.status)
             ELSE [pl EXCEPT !.L = r.L, !.nfiles = @ + 1])

\* attach_loop_device after the walk.  set: the status of the device's
\* set_mapping_table.
attach_finish(pl, set) ==
    With(record_blocks(pl.image, sort_by_record_position(pl.L.patch_record_list), 1, <<>>,
                       pl.L.pools),
         LAMBDA b :
        IF b.status # "SUCCESS"
        THEN PlanDone([pl EXCEPT !.L.pools = b.pools, !.blocks = b.record_block_list],
                      b.status)
        ELSE PlanDone([pl EXCEPT !.L.pools = b.pools, !.blocks = b.record_block_list,
                                 !.call = [op |-> "set_mapping_table",
                                           read_only |-> pl.forced,
                                           table |-> final_table(
                                               b.record_block_list,
                                               pl.image.file_size \div SECTOR_SIZE,
                                               pl.L.append_item_list)]],
                      set))

AttachCommit(pl) ==
    /\ plan' = pl
    /\ UNCHANGED <<protos, ptVars, ctlVars, devVars, split, iso>>

AttachStart ==
    /\ plan.pc = "start"
    /\ \E acquire \in {"SUCCESS", "NOT_FOUND"}, pvd \in {"SUCCESS", "NOT_FOUND"},
          set \in {"SUCCESS", "INVALID_PARAMETER"} :
          /\ acquire # "SUCCESS" => pvd = "SUCCESS" /\ set = "SUCCESS"
          /\ AttachCommit(attach_start(plan, acquire, pvd, set))

WalkRecord ==
    /\ plan.pc = "walk" /\ plan.nfiles < MaxRecords
    /\ \E info \in WalkInfos : AttachCommit(walk_record(plan, info))

AttachFinish ==
    /\ plan.pc = "walk"
    /\ \E set \in {"SUCCESS", "INVALID_PARAMETER"} : AttachCommit(attach_finish(plan, set))

AttachInit ==
    /\ protos = NoDb
    /\ pt = PtIdle
    /\ loop_list = <<>>
    /\ ctxs = CtxsInit
    /\ opened = {}
    /\ ctl = "installed"
    /\ ret = RetInit
    /\ dev = DevInit
    /\ fsok = TRUE
    /\ io = IoInit
    /\ pools = NoPools
    /\ cleared = FALSE
    /\ overflow_checks = TRUE
    /\ iso = IsoIdle
    /\ split = SplitIdle
    /\ \E read_only \in BOOLEAN, file_size \in ImageSizes, d \in Descriptors,
          patch \in {<<>>, PatchRules} :
          plan = [PlanIdle EXCEPT !.pc = "start", !.read_only = read_only,
                                  !.image = [file_size |-> file_size, cd001 |-> d[1],
                                             vd_ver |-> d[2]],
                                  !.patch = patch]

AttachNext == AttachStart \/ WalkRecord \/ AttachFinish

SpecAttach == AttachInit /\ [][AttachNext]_vars

----------------------------------------------------------------------------
(* SpecSplit: a Split over a command line, and the decoding of the        *)
(* arguments it yields.                                                    *)

\* The elements of the command lines
Chars == {Plain, SPACE, CARET, QUOTE, NUL, Wide}

RECURSIVE CommandLines(_)
CommandLines(n) ==
    IF n = 0 THEN {<<>>}
    ELSE CommandLines(n - 1)
         \cup {Append(t, ch) : t \in {u \in CommandLines(n - 1) : Len(u) = n - 1}, ch \in Chars}

\* split.next()
SplitNext ==
    /\ split.nones < MaxNones
    /\ With(next(split.command_line, split.it), LAMBDA r :
          split' = [split EXCEPT !.it = r.it, !.out = r.arg,
                                 !.nones = IF r.arg.some THEN @ ELSE @ + 1,
                                 !.dec = NotDecoded])
    /\ UNCHANGED <<protos, ptVars, ctlVars, devVars, plan, iso>>

\* arg.decode() and arg.decode_to_owned() on the argument yielded last
ArgDecode ==
    /\ split.out.some
    /\ ~split.dec.done
    /\ split' = [split EXCEPT !.dec = [done |-> TRUE, decoded |-> decode(split.out.raw_arg),
                                       owned |-> decode_to_owned(split.out.raw_arg)]]
    /\ UNCHANGED <<protos, ptVars, ctlVars, devVars, plan, iso>>

\* Split::new(command_line)
SplitInit ==
    /\ protos = NoDb
    /\ pt = PtIdle
    /\ loop_list = <<>>
    /\ ctxs = CtxsInit
    /\ opened = {}
    /\ ctl = "installed"
    /\ ret = RetInit
    /\ dev = DevInit
    /\ fsok = TRUE
    /\ io = IoInit
    /\ pools = NoPools
    /\ cleared = FALSE
    /\ overflow_checks = TRUE
    /\ iso = IsoIdle
    /\ plan = PlanIdle
    /\ \E command_line \in CommandLines(MaxChars) :
          split = [SplitIdle EXCEPT !.command_line = command_line]

SplitSpecNext == SplitNext \/ ArgDecode

SpecSplit == SplitInit /\ [][SplitSpecNext]_vars

----------------------------------------------------------------------------
(* SpecIso: an image is opened with ISO9660::new, its primary volume       *)
(* descriptor is looked for, and the records of its root directory are     *)
(* walked.                                                                 *)

\* The volume descriptors of the images: a boot record, a primary descriptor
\* and a terminator, each with a right or wrong identifier and version
VolumeDescriptors ==
    {[vd_type |-> t, cd001 |-> c, vd_ver |-> v] : t \in {0, 1, 255}, c \in BOOLEAN, v \in {1, 2}}
\* The block the root directory begins at
ExtentLbas == {0, 18}
\* The sizes in bytes of the root directory: a part of a block, whole blocks
DirSizes == {100, MaxBlocks * ISO_BLOCK_SIZE}
\* The size bytes the walk reads: padding, and two record sizes
RecordSizes == {0, 200, 255}

IsoCommit(i) ==
    /\ iso' = i
    /\ UNCHANGED <<protos, ptVars, ctlVars, devVars, plan, split>>

\* ISO9660::new(file)
IsoNew ==
    /\ iso.pc = "new"
    /\ IsoCommit([iso EXCEPT !.new = IF ISO9660_new(DescriptorImage(iso.vds)) THEN "SUCCESS"
                                     ELSE iso_read(DescriptorImage(iso.vds),
                                                   16 * ISO_BLOCK_SIZE, 7),
                             !.pc = IF ISO9660_new(DescriptorImage(iso.vds))
                                    THEN "pvd" ELSE "done"])

\* find_root_record(), and the extent of the root record it points at
FindPvd ==
    /\ iso.pc = "pvd"
    /\ \E extent_lba \in ExtentLbas, extent_size \in DirSizes :
          With(find_pvd_position(iso.vds, 16), LAMBDA r :
              IsoCommit(IF r.status # "SUCCESS" THEN [iso EXCEPT !.pvd = r, !.pc = "done"]
                        ELSE [iso EXCEPT !.pvd = r, !.pc = "walk",
                                         !.extent_lba = extent_lba,
                                         !.num_blocks = (extent_size + ISO_BLOCK_SIZE - 1)
                                                            \div ISO_BLOCK_SIZE,
                                         !.w.position = extent_lba * ISO_BLOCK_SIZE]))

\* One round of the loop of walk_record
WalkStep ==
    /\ iso.pc = "walk" /\ iso.w.status = "none" /\ iso.w.block_num < iso.num_blocks
    /\ \E read \in {"SUCCESS", "DEVICE_ERROR"}, size \in RecordSizes :
          IsoCommit([iso EXCEPT !.w = walk_step(iso.w, iso.extent_lba, read, size)])

\* walk_record returns
WalkEnd ==
    /\ iso.pc = "walk"
    /\ iso.w.status # "none" \/ iso.w.block_num >= iso.num_blocks
    /\ IsoCommit([iso EXCEPT !.pc = "done",
                             !.w.status = IF @ = "none" THEN "SUCCESS" ELSE @])

IsoInit ==
    /\ protos = NoDb
    /\ pt = PtIdle
    /\ loop_list = <<>>
    /\ ctxs = CtxsInit
    /\ opened = {}
    /\ ctl = "installed"
    /\ ret = RetInit
    /\ dev = DevInit
    /\ fsok = TRUE
    /\ io = IoInit
    /\ pools = NoPools
    /\ cleared = FALSE
    /\ overflow_checks = TRUE
    /\ plan = PlanIdle
    /\ split = SplitIdle
    /\ \E vds \in SeqsUpTo(VolumeDescriptors, MaxDescriptors) :
          iso = [IsoIdle EXCEPT !.pc = "new", !.vds = vds]

IsoNext == IsoNew \/ FindPvd \/ WalkStep \/ WalkEnd

SpecIso == IsoInit /\ [][IsoNext]_vars

----------------------------------------------------------------------------
ProtoInit ==
    /\ \E present \in PtPresent :
          protos = [h \in Handles |-> IF h = 1 THEN present ELSE {}]
    /\ \E op \in {"install", "uninstall"}, handle \in PtTargets,
          pairs \in SeqsUpTo(PtPairs, MaxPairs), F \in MpFaultSets :
          /\ op = "uninstall" => handle # NullHandle
          /\ op = "install" /\ handle # NullHandle => Range(pairs) \cap protos[handle] = {}
          /\ pt = [PtIdle EXCEPT !.phase = "call", !.op = op, !.handle = handle,
                                 !.pairs = pairs, !.F = F,
                                 !.before = protos]
    /\ loop_list = <<>>
    /\ ctxs = CtxsInit
    /\ opened = {}
    /\ ctl = "installed"
    /\ ret = RetInit
    /\ dev = DevInit
    /\ fsok = TRUE
    /\ io = IoInit
    /\ pools = NoPools
    /\ cleared = FALSE
    /\ overflow_checks = TRUE
    /\ iso = IsoIdle
    /\ plan = PlanIdle
    /\ split = SplitIdle

ProtoNext == PtInstall \/ PtUninstall

SpecProto == ProtoInit /\ [][ProtoNext]_vars


----------------------------------------------------------------------------
(* Claims on the loopback device (SpecDev). *)

\* C1: in every state reached by set_file, set_mapping_table, clear,
\* read_blocks, write_blocks and flush_blocks on one device, whatever they
\* return: if media_present is true, the table is sorted by start_sector, its
\* first item starts at sector 0, every item starts where the previous one
\* ends, and the last item ends at last_block.
C1_TablePartitionsDevice ==
    dev.media_present =>
        /\ dev.table # <<>>
        /\ dev.table[1].start_sector = 0
        /\ \A i \in 1..(Len(dev.table) - 1) :
              /\ dev.table[i].start_sector <= dev.table[i + 1].start_sector
              /\ dev.table[i + 1].start_sector
                    = dev.table[i].start_sector + dev.table[i].num_sectors
        /\ Last(dev.table).start_sector + Last(dev.table).num_sectors = dev.last_block

\* C11: media_id strictly increases on every media replacement: whatever its
\* value before, a step of set_file or set_mapping_table that activates a media
\* (it replaces media_id) leaves media_id strictly greater than it was, and a
\* step of clear leaves media_id unchanged.
C11_MediaIdStrictlyIncreases ==
    [][ /\ (io'.op \in {"set_file", "set_mapping_table"}
                /\ dev'.media_id # dev.media_id)
           => dev'.media_id > dev.media_id
        /\ io'.op = "clear" => dev'.media_id = dev.media_id ]_vars

\* C17: on a Bound device a read of n >= 1 sectors from sector s passes the
\* range check if and only if s + n <= last_block: a read that ends at
\* last_block at the latest is not refused by the range check, and a read whose
\* last sector is last_block or beyond returns INVALID_PARAMETER without a call
\* on any target.
C17_RangeCheck ==
    io.status # "PANIC" /\ dev.media_present =>
        \A lba \in Lbas, buffer_size \in BufferSizes \ {0} :
            buffer_size % SECTOR_SIZE = 0 =>
                With(read_blocks(dev, pools, FALSE, dev.media_id, lba, buffer_size, FALSE,
                                 StaleBuffer(buffer_size), fsok, "ok", overflow_checks),
                     LAMBDA r :
                    IF lba + buffer_size \div SECTOR_SIZE <= dev.last_block
                    THEN r.st = "ok" /\ r.status # "INVALID_PARAMETER"
                    ELSE r.st = "ok" /\ r.status = "INVALID_PARAMETER" /\ r.ops = <<>>)

\* The status the first failing check gives, in the order null this, media
\* absent, media_id not the current one, null buffer with a size above 0, size
\* not a multiple of the block size, write on read-only media; "none" when no
\* check fails.
FirstFailingCheck(mode, this_null, media_id, buffer_size, buffer_null) ==
    IF this_null THEN "INVALID_PARAMETER"
    ELSE IF ~dev.media_present THEN "NO_MEDIA"
    ELSE IF media_id # dev.media_id THEN "MEDIA_CHANGED"
    ELSE IF buffer_null /\ buffer_size > 0 THEN "INVALID_PARAMETER"
    ELSE IF buffer_size % dev.block_size # 0 THEN "BAD_BUFFER_SIZE"
    ELSE IF mode = "write" /\ dev.read_only THEN "WRITE_PROTECTED"
    ELSE "none"

\* The call of read_blocks or write_blocks on the device as it is
BlockCall(mode, this_null, media_id, lba, buffer_size, buffer_null, fileio) ==
    IF mode = "read"
    THEN read_blocks(dev, pools, this_null, media_id, lba, buffer_size, buffer_null,
                     StaleBuffer(buffer_size), fsok, fileio, overflow_checks)
    ELSE write_blocks(dev, pools, this_null, media_id, lba, buffer_size, buffer_null,
                      CountBuffer(buffer_size), fsok, fileio, overflow_checks)

\* C13: read_blocks and write_blocks validate before touching any target, and
\* the first failing check in the order null this, media absent, stale
\* media_id, null buffer with size above 0, size not a multiple of the block
\* size, write on read-only media decides the status; in every failing case no
\* target is read or written and the device is left as it was.  A read with
\* the media_id cached before a clear and a set_file that activates a media
\* returns MEDIA_CHANGED.
C13_ValidationOrder ==
    io.status # "PANIC" =>
        /\ \A mode \in {"read", "write"}, this_null \in BOOLEAN,
              media_id \in MediaIds(dev), lba \in Lbas, buffer_size \in BufferSizes,
              buffer_null \in BOOLEAN, fileio \in {"ok", "fail"} :
              With(BlockCall(mode, this_null, media_id, lba, buffer_size, buffer_null,
                             fileio),
                   LAMBDA r :
                  FirstFailingCheck(mode, this_null, media_id, buffer_size, buffer_null)
                      # "none"
                  => /\ r.st = "ok"
                     /\ r.status = FirstFailingCheck(mode, this_null, media_id,
                                                     buffer_size, buffer_null)
                     /\ r.ops = <<>>
                     /\ r.c = dev /\ r.P = pools)
        /\ \A disconnect, connect \in {"SUCCESS", "NOT_FOUND"}, read_only \in BOOLEAN :
              With(set_file(clear(dev, pools, disconnect).c, pools, read_only, 1, connect,
                            overflow_checks),
                   LAMBDA a :
                  a.c.media_present
                  => read_blocks(a.c, a.P, FALSE, dev.media_id, 0, SECTOR_SIZE, FALSE,
                                 StaleBuffer(SECTOR_SIZE), fsok, "ok",
                                 overflow_checks).status = "MEDIA_CHANGED")

\* A write that passed every other check was refused on read-only media.
C13_Witness ==
    /\ io.op = "write_blocks" /\ io.status = "WRITE_PROTECTED"
    /\ dev.media_present /\ dev.read_only /\ dev.table # <<>>

\* C19: when looking up the file system protocol on a file target's cached
\* handle fails or yields another interface than the cached one, every
\* read_blocks and write_blocks that reaches a file target, and every
\* flush_blocks on writable media that does, returns DEVICE_ERROR and makes no
\* set-position, read, write or flush call on the target's file.
C19_TamperDetection ==
    io.status # "PANIC" /\ ~fsok =>
        /\ \A mode \in {"read", "write"}, lba \in Lbas, buffer_size \in BufferSizes,
              fileio \in {"ok", "fail"} :
              With(BlockCall(mode, FALSE, dev.media_id, lba, buffer_size, FALSE, fileio),
                   LAMBDA r :
                  \A k \in 1..Len(r.ops) :
                      r.ops[k].target.kind = "File"
                      => /\ r.st = "ok" /\ r.status = "DEVICE_ERROR"
                         /\ r.ops[k].status = "DEVICE_ERROR"
                         /\ r.ops[k].fileops = <<>>
                         /\ k = Len(r.ops))
        /\ With(flush_blocks(dev, pools, FALSE, fsok), LAMBDA r :
                (/\ dev.media_present /\ ~dev.read_only
                 /\ \E i \in 1..Len(dev.table) : dev.table[i].target.kind = "File")
                => /\ r.status = "DEVICE_ERROR"
                   /\ \A k \in 1..Len(r.ops) : r.ops[k].fileops = <<>>)

\* A write reached a file target while the file system interface was not the
\* cached one, and was refused (no other path of write_blocks gives DEVICE_ERROR).
C19_Witness ==
    /\ ~fsok /\ io.op = "write_blocks" /\ io.status = "DEVICE_ERROR"
    /\ dev.media_present /\ ~dev.read_only

\* The end of the device as access_blocks computes it from the last table item.
TableEnd(table) == IF table = <<>> THEN 0 ELSE Last(table).start_sector + Last(table).num_sectors

\* C28: the assertions of the segment walk never fire.  In every reachable
\* state, every read_blocks and write_blocks request (zero-length requests
\* included) that passes the parameter validation and the range check finds a
\* predecessor item (the partition point is not 0), and when its walk ends
\* without an error of a target the total advance is the requested number of
\* sectors.
C28_WalkAssertionsHold ==
    io.status # "PANIC" =>
        \A mode \in {"read", "write"}, lba \in Lbas \ {U64Mod \div SECTOR_SIZE},
           buffer_size \in BufferSizes, fileio \in {"ok", "fail"} :
            (/\ FirstFailingCheck(mode, FALSE, dev.media_id, buffer_size, FALSE) = "none"
             /\ lba + buffer_size \div SECTOR_SIZE <= TableEnd(dev.table))
            => /\ partition_point(dev.table, lba) # 0
               /\ With(access_items(pools, mode, dev.table, partition_point(dev.table, lba),
                                    lba, buffer_size \div SECTOR_SIZE, 0, <<>>, fsok, fileio,
                                    overflow_checks),
                       LAMBDA r : r.st = "ok" => r.total_advance = buffer_size \div SECTOR_SIZE)

\* The size in sectors of the target of a table item (pool payload size / 512
\* or file size / 512).
TargetSectors(item) ==
    IF item.target.kind = "File" THEN get_file_info(item.target.id).size \div SECTOR_SIZE
    ELSE pools[item.target.id].size \div SECTOR_SIZE

\* C29: every item of the table of a device with media, whichever of set_file
\* and set_mapping_table accepted it, lies within its target:
\* target_start_sector + num_sectors is at most the size of the file or pool
\* in sectors.
C29_ItemsWithinTarget ==
    io.status # "PANIC" /\ dev.media_present =>
        \A i \in 1..Len(dev.table) :
            dev.table[i].target.kind # "Zero"
            => dev.table[i].target_start_sector + dev.table[i].num_sectors
                   <= TargetSectors(dev.table[i])

\* C30: every entry of the mapping table of a device with media has
\* num_sectors > 0, whichever of set_mapping_table and set_file bound it.
C30_NoEmptyItems ==
    io.status # "PANIC" /\ dev.media_present =>
        \A i \in 1..Len(dev.table) : dev.table[i].num_sectors > 0

\* C31: the range check of read_blocks and write_blocks fails closed.  In every
\* reachable state with a table, every request that passes the parameter
\* validation and whose true range, lba * block_size / 512 + buffer_size / 512
\* computed without wrapping, ends past the end of the table returns
\* INVALID_PARAMETER and reaches no target.
C31_RangeCheckFailsClosed ==
    io.status # "PANIC" /\ dev.table # <<>> =>
        \A mode \in {"read", "write"}, lba \in Lbas, buffer_size \in BufferSizes :
            (/\ FirstFailingCheck(mode, FALSE, dev.media_id, buffer_size, FALSE) = "none"
             /\ (lba * dev.block_size) \div SECTOR_SIZE + buffer_size \div SECTOR_SIZE
                    > TableEnd(dev.table))
            => With(BlockCall(mode, FALSE, dev.media_id, lba, buffer_size, FALSE, "ok"),
                    LAMBDA r : r.st = "ok" /\ r.status = "INVALID_PARAMETER" /\ r.ops = <<>>)

\* The status of the first item of the sorted table, from item i on, that
\* from_loop_mapping_item refuses, "none" when the loop of set_mapping_table
\* ends, returns or panics before any item is refused
RECURSIVE FirstItemError(_, _, _, _, _)
FirstItemError(P, table, i, prev_end, checked) ==
    IF i > Len(table) THEN "none"
    ELSE With(from_loop_mapping_item(P, table[i], checked), LAMBDA item :
        IF item.st = "panic" THEN "none"
        ELSE IF item.st = "err" THEN item.status
        ELSE IF table[i].num_sectors = 0 THEN FirstItemError(P, table, i + 1, prev_end, checked)
        ELSE IF table[i].start_sector # prev_end THEN "none"
        ELSE IF AddU64(table[i].start_sector, table[i].num_sectors).ovf /\ checked THEN "none"
        ELSE FirstItemError(P, table, i + 1,
                            AddU64(table[i].start_sector, table[i].num_sectors).v, checked))

\* C32: set_mapping_table returns the first error verbatim.  In every reachable
\* state, for every table, when from_loop_mapping_item refuses an item of the
\* sorted table for the first time with status S (at any position, the first
\* included), set_mapping_table returns S.
C32_FirstErrorVerbatim ==
    io.status # "PANIC" =>
        \A table \in SeqsUpTo(TableItems, MaxItems) :
            With(FirstItemError(pools, sort_by_start_sector(table), 1, 0, overflow_checks),
                 LAMBDA S :
                S # "none" =>
                    set_mapping_table(dev, pools, FALSE, table, "SUCCESS",
                                      overflow_checks).status = S)

\* C34: a setter that fails leaves the device as it was.  In every reachable
\* state, every call of set_file and of set_mapping_table (every file, table,
\* read-only flag and status of the firmware's connect request) that returns a
\* status other than SUCCESS returns with media_present, media_id, last_block,
\* read_only and the table unchanged.
C34_FailedSetterKeepsDevice ==
    io.status # "PANIC" =>
        \A read_only \in BOOLEAN, connect \in {"SUCCESS", "NOT_FOUND"} :
            /\ \A file \in {NoFile} \cup FileIds :
                  With(set_file(dev, pools, read_only, file, connect, overflow_checks),
                       LAMBDA r : r.st = "ok" /\ r.status # "SUCCESS" => r.c = dev)
            /\ \A table \in SeqsUpTo(TableItems, MaxItems) :
                  With(set_mapping_table(dev, pools, read_only, table, connect,
                                         overflow_checks),
                       LAMBDA r : r.st = "ok" /\ r.status # "SUCCESS" => r.c = dev)

----------------------------------------------------------------------------
(* Claims on the loopback device with pools and data (SpecIo). *)

\* C12: between a clear and the next set_file or set_mapping_table that
\* returns SUCCESS, every read_blocks call, with any media_id, block address
\* and buffer size, returns NO_MEDIA.
C12_NoMediaAfterClear ==
    cleared /\ io.status # "PANIC" =>
        \A media_id \in MediaIds(dev), lba \in IoLbas, buffer_size \in IoBufferSizes :
            read_blocks(dev, pools, FALSE, media_id, lba, buffer_size, FALSE,
                        StaleBuffer(buffer_size), fsok, "ok", overflow_checks).status
                = "NO_MEDIA"

\* The pools the items of a table refer to
SuppliedPools(table) == UNION {ItemPool(table[i]) : i \in 1..Len(table)}

\* C14: set_mapping_table takes over every pool of the supplied items whatever
\* the outcome: when the call returns (SUCCESS, a failing item at any
\* position, a table that is not contiguous, an empty table), each pool a
\* supplied item refers to is held by the device's table or has been
\* released; none is left allocated with the caller.
C14_SetMappingTableConsumesPools ==
    io.status # "PANIC" =>
        \A read_only \in BOOLEAN, table \in IoTables(pools),
           connect \in {"SUCCESS", "NOT_FOUND"} :
           With(set_mapping_table(dev, pools, read_only, table, connect, overflow_checks),
                LAMBDA r :
               r.st = "ok" =>
                   \A p \in SuppliedPools(table) :
                       \/ r.P[p].state = "boxed" /\ p \in TablePools(r.c.table)
                       \/ r.P[p].state = "freed")

\* C15: for every payload pointer p handed out by alloc_pool of one device,
\* free_pool(p) called on another device returns INVALID_PARAMETER and does
\* not free the pool: p stays allocated, with the caller, and owned by the
\* device that allocated it.
C15_FreePoolOtherDeviceKeepsPool ==
    io.status # "PANIC" =>
        \A p \in HeldPools(pools), c \in IoDevices :
            c.unit_number # pools[p].owner =>
                /\ free_pool(c, pools, FALSE, p).status = "INVALID_PARAMETER"
                /\ free_pool(c, pools, FALSE, p).P[p] = pools[p]

\* A Bound device with a valid table: the table tiles [0, last_block).
ValidTable(c) ==
    /\ c.media_present /\ c.table # <<>>
    /\ c.table[1].start_sector = 0
    /\ \A i \in 1..Len(c.table) : c.table[i].num_sectors > 0
    /\ \A i \in 1..(Len(c.table) - 1) :
          c.table[i + 1].start_sector = c.table[i].start_sector + c.table[i].num_sectors
    /\ Last(c.table).start_sector + Last(c.table).num_sectors = c.last_block

\* The table item that holds logical sector s
ItemOf(table, s) ==
    CHOOSE i \in 1..Len(table) :
        table[i].start_sector <= s /\ s < table[i].start_sector + table[i].num_sectors

\* The calls on targets that moved buffer sector j (counted from 1)
Serving(ops, j) == {k \in 1..Len(ops) : ops[k].off < j /\ j <= ops[k].off + ops[k].num}

\* The target sector the call k of ops moved buffer sector j to or from
ServedAt(ops, k, j) == ops[k].sector + (j - 1 - ops[k].off)

\* Every sector of the request of n sectors from `start` is served by exactly
\* one call, on the item that holds it, at the item's target sector for it.
WalkServes(c, ops, start, n) ==
    \A j \in 1..n :
        /\ Cardinality(Serving(ops, j)) = 1
        /\ \A k \in Serving(ops, j) :
              /\ ops[k].status = "SUCCESS"
              /\ ops[k].item = ItemOf(c.table, start + j - 1)
              /\ ops[k].target = c.table[ops[k].item].target
              /\ ServedAt(ops, k, j)
                    = c.table[ops[k].item].target_start_sector
                      + (start + j - 1 - c.table[ops[k].item].start_sector)

\* C16: on a Bound device with a valid table, for every request in range, the
\* walk makes calls on targets such that each requested logical sector s is
\* served exactly once, by the one item that holds s, at target sector
\* target_start_sector + (s - start_sector) of that item, with its data at
\* the buffer offset of sector s - start; so a read returns, sector by sector,
\* the data of the items in logical order, and a write that reaches no file
\* puts each sector of the buffer where a read of that sector finds it.
C16_SegmentWalk ==
    io.status # "PANIC" /\ ValidTable(dev) =>
        \A lba \in IoLbas, buffer_size \in IoBufferSizes :
            lba + buffer_size \div SECTOR_SIZE <= dev.last_block =>
                /\ With(read_blocks(dev, pools, FALSE, dev.media_id, lba, buffer_size,
                                    FALSE, StaleBuffer(buffer_size), fsok, "ok",
                                    overflow_checks),
                        LAMBDA r :
                       /\ r.st = "ok" /\ r.status = "SUCCESS"
                       /\ WalkServes(dev, r.ops, lba, buffer_size \div SECTOR_SIZE)
                       /\ \A j \in 1..(buffer_size \div SECTOR_SIZE) :
                             r.data[j]
                                = TargetData(pools, dev.table[ItemOf(dev.table, lba + j - 1)].target,
                                             dev.table[ItemOf(dev.table, lba + j - 1)].target_start_sector
                                             + (lba + j - 1
                                                - dev.table[ItemOf(dev.table, lba + j - 1)].start_sector)))
                /\ (/\ ~dev.read_only
                    /\ \A i \in 1..Len(dev.table) : dev.table[i].target.kind # "File")
                   => With(write_blocks(dev, pools, FALSE, dev.media_id, lba, buffer_size,
                                        FALSE, CountBuffer(buffer_size), fsok, "ok",
                                        overflow_checks),
                           LAMBDA w :
                          /\ w.st = "ok" /\ w.status = "SUCCESS"
                          /\ WalkServes(dev, w.ops, lba, buffer_size \div SECTOR_SIZE)
                          /\ read_blocks(w.c, w.P, FALSE, dev.media_id, lba, buffer_size,
                                         FALSE, StaleBuffer(buffer_size), fsok, "ok",
                                         overflow_checks).data
                                = [j \in 1..(buffer_size \div SECTOR_SIZE) |->
                                      IF dev.table[ItemOf(dev.table, lba + j - 1)].target.kind
                                            = "Zero"
                                      THEN ZeroData ELSE j])

\* A read that spanned two items of a valid table, a pool first, succeeded.
C16_Witness ==
    /\ io.op = "read_blocks" /\ io.status = "SUCCESS" /\ io.nops = 2
    /\ ValidTable(dev) /\ Len(dev.table) = 2
    /\ dev.table[1].target.kind = "LoopPool"
    /\ dev.table[2].target.kind # "LoopPool"

\* The data a caller may write to n sectors
WriteData(n) == [1..n -> {1, 2}]

\* C18: for every table accepted by set_mapping_table with read_only = false
\* whose items are all pool or file ranges, writing data W over the whole
\* range [0, last_block) and then reading the whole range returns W.
C18_WriteReadRoundTrip ==
    (/\ io.op = "set_mapping_table" /\ io.status = "SUCCESS"
     /\ ~dev.read_only
     /\ \A i \in 1..Len(dev.table) : dev.table[i].target.kind \in {"LoopPool", "File"})
    => \A W \in WriteData(dev.last_block) :
          With(write_blocks(dev, pools, FALSE, dev.media_id, 0,
                            dev.last_block * SECTOR_SIZE, FALSE, W, fsok, "ok",
                            overflow_checks),
               LAMBDA w :
              /\ w.st = "ok" /\ w.status = "SUCCESS"
              /\ With(read_blocks(w.c, w.P, FALSE, dev.media_id, 0,
                                  dev.last_block * SECTOR_SIZE, FALSE,
                                  StaleBuffer(dev.last_block * SECTOR_SIZE), fsok, "ok",
                                  overflow_checks),
                      LAMBDA r : r.st = "ok" /\ r.status = "SUCCESS" /\ r.data = W))

\* C27: a block-I/O call leaves the mapping table untouched.  In every
\* reachable state with media present, for every read_blocks and write_blocks
\* call that returns (SUCCESS or an error, among them the errors a per-target
\* operation raises part-way through the walk), the table of the device after
\* the call is the table before it and every pool the table refers to is in
\* the state it was in.
C27_BlockIoKeepsTable ==
    io.status # "PANIC" /\ dev.media_present =>
        \A mode \in {"read", "write"}, lba \in IoLbas, buffer_size \in IoBufferSizes,
           fileio \in {"ok", "fail"} :
            With(BlockCall(mode, FALSE, dev.media_id, lba, buffer_size, FALSE, fileio),
                 LAMBDA r :
                r.st = "ok"
                => /\ r.c.table = dev.table
                   /\ \A p \in TablePools(dev.table) : r.P[p].state = pools[p].state)

\* The pools of the items of a table whose header names another device
ForeignPools(c, P, table) ==
    {p \in TablePools(table) : P[p].owner # c.unit_number}

\* C33: the owning loop of a pool is verified before the pool is used.  The
\* active table of the device never holds a pool whose header names another
\* device, and in every reachable state set_mapping_table with a table that
\* names a pool of another device returns INVALID_PARAMETER.
C33_PoolOwnerVerified ==
    io.status # "PANIC" =>
        /\ ForeignPools(dev, pools, dev.table) = {}
        /\ \A table \in IoTables(pools) :
              ForeignPools(dev, pools, table) # {}
              => set_mapping_table(dev, pools, FALSE, table, "SUCCESS",
                                   overflow_checks).status = "INVALID_PARAMETER"

\* C39: clear frees the device whatever it returns.  In every reachable state,
\* for every status of the firmware's disconnect request, clear returns that
\* status with media_present false, last_block 0 and an empty table, every
\* pool of the old table deallocated and every other pool untouched, and with
\* media_id and the unit number as they were.
C39_ClearFreesDevice ==
    io.status # "PANIC" =>
        \A disconnect \in {"SUCCESS", "NOT_FOUND"} :
            With(clear(dev, pools, disconnect), LAMBDA r :
                /\ r.st = "ok" /\ r.status = disconnect
                /\ is_free(r.c) /\ r.c.last_block = 0 /\ r.c.table = <<>>
                /\ r.c.media_id = dev.media_id /\ r.c.unit_number = dev.unit_number
                /\ \A p \in PoolIds :
                      r.P[p] = IF p \in TablePools(dev.table) THEN FreedPool ELSE pools[p])

\* A clear whose disconnect request failed, on a device that had a media with
\* a pool in its table.
C39_Witness ==
    /\ io.op = "clear" /\ io.status = "NOT_FOUND"
    /\ is_free(dev) /\ dev.last_block = 0 /\ dev.table = <<>> /\ dev.media_id > 0
    /\ \E p \in PoolIds : pools[p] = FreedPool

\* C40: alloc_pool fails only when the size overflows.  In every reachable
\* state, for every size asked for with non-null arguments: when header size +
\* size fits the machine word the call returns SUCCESS with a pool of that
\* size owned by the device; when it does not, the call returns an error,
\* allocates nothing and hands out no pointer.
C40_AllocPoolFailsOnlyOnOverflow ==
    io.status # "PANIC" =>
        \A call \in {a \in AllocCalls : ~a[3] /\ ~a[4]}, p \in PoolIds :
            pools[p].state = "none" =>
                With(alloc_pool(call[1], pools, FALSE, call[2], FALSE, p, overflow_checks),
                     LAMBDA r :
                    IF PoolHeaderSize + call[2] < U64Mod
                    THEN /\ r.st = "ok" /\ r.status = "SUCCESS" /\ r.buffer = p
                         /\ r.P[p].size = call[2] /\ r.P[p].owner = call[1].unit_number
                    ELSE /\ r.st = "ok" /\ r.status # "SUCCESS"
                         /\ r.P = pools /\ r.buffer = NullHandle)

----------------------------------------------------------------------------
(* Claims on the loop controller (SpecCtl). *)

ListUnits(list) == {list[i].unit : i \in 1..Len(list)}
ListHandles(list) == {list[i].handle : i \in 1..Len(list)}

\* C2: the controller's child list is strictly increasing by unit number
\* (so no two entries share a unit number) in every state reached by get_free,
\* add, find, remove, stop and the unload path, whether the calls succeed or fail.
C2_ListStrictlyIncreasing ==
    \A i \in 1..(Len(loop_list) - 1) : loop_list[i].unit < loop_list[i + 1].unit

\* An add that succeeded and whose child went in front of an older child.
C2_Witness ==
    /\ ret.op = "add" /\ ret.status = "SUCCESS"
    /\ Len(loop_list) >= 2 /\ loop_list[1] = [unit |-> ret.unit, handle |-> ret.handle]

\* What C3 asks of the result r of a call made in state S that tried to create
\* a child (r.tried is the unit number it tried).
ChildCreationOutcome(S, r) ==
    \A u \in r.tried :
        CASE r.st = "ok" ->
                /\ r.handle \in ChildHandles
                /\ r.S.db[r.handle] = Range(ChildProtocols(u))
                /\ r.handle \in r.S.opened
                /\ r.S.ctxs[r.handle] = CtxLive(NewLoopContext(u))
                /\ \E i \in 1..Len(r.S.list) : r.S.list[i] = [unit |-> u, handle |-> r.handle]
          [] r.st = "err" ->
                /\ \A h \in Handles : r.S.db[h] \cap Range(ChildProtocols(u)) = {}
                /\ r.S.list = S.list
          [] OTHER -> TRUE

\* C3: child creation is all-or-nothing.  From every reachable state of a running controller,
\* for add on every unit number and for get_free, under every fault the firmware
\* may inject (an install of one of the three interfaces refused, the open of
\* the parent back-edge refused): when the call returns SUCCESS for a new child,
\* its handle carries exactly the three child interfaces, the back-edge is
\* open, its state is live and it is in the list; when the call returns an
\* error, no handle carries any of the attempted interfaces and the list is
\* the one before the call.
C3_ChildCreationAtomic ==
    ctl = "installed" => \A F \in AddFaultSets :
        /\ \A unit_number \in Units :
              ChildCreationOutcome(CtlState, add(CtlState, FALSE, unit_number, F))
        /\ \A garbage \in SUBSET Dangling :
              ChildCreationOutcome(CtlState, get_free(CtlState, FALSE, F, garbage))

\* An add whose three installs succeeded and whose open of the back-edge was
\* refused, next to an older child.
C3_Witness ==
    /\ ret.op = "add" /\ ret.status = "ACCESS_DENIED" /\ ret.tried # {}
    /\ loop_list # <<>>

\* C4: when remove(handle) returns an error from uninstalling the child, the
\* child's state is still live, its entry is still in the list and its three
\* interfaces are still on its handle.
C4_StateLiveAfterFailedRemove ==
    (ret.op = "remove" /\ ret.status = "ACCESS_DENIED") =>
        /\ ctxs[ret.handle].alloc = "live"
        /\ ret.handle \in ListHandles(loop_list)
        /\ Range(ChildProtocols(ret.unit)) \subseteq protos[ret.handle]

\* The children of the list that have no media, by the state each child had
\* when it was last live.
FreeChildren == {i \in 1..Len(loop_list) : is_free(ctxs[loop_list[i].handle].c)}
LowestFree == loop_list[CHOOSE i \in FreeChildren : \A j \in FreeChildren : i <= j].handle

\* C7: whenever some child of the list has no media, get_free returns the
\* handle of the lowest-numbered such child and changes nothing.
C7_GetFreeReturnsLowestFree ==
    (ctl = "installed" /\ FreeChildren # {}) =>
        \A garbage \in SUBSET Dangling :
            With(get_free(CtlState, FALSE, {}, garbage), LAMBDA r :
                /\ r.st = "ok" /\ r.handle = LowestFree
                /\ r.tried = {} /\ r.S = CtlState)

\* The smallest unit number no child of the list has.
Mex(list) == CHOOSE n \in 0..Len(list) :
                /\ n \notin ListUnits(list)
                /\ \A m \in 0..(n - 1) : m \in ListUnits(list)

\* C8: when every child of the list has media and the firmware refuses
\* nothing, get_free creates exactly one child, with the smallest unit number
\* absent from the list, and returns its handle.
C8_GetFreeCreatesSmallestAbsent ==
    (ctl = "installed" /\ FreeChildren = {} /\ FwFreshHandle(protos) # NullHandle) =>
        \A garbage \in SUBSET Dangling :
            With(get_free(CtlState, FALSE, {}, garbage), LAMBDA r :
                /\ r.st = "ok" /\ r.tried = {Mex(loop_list)}
                /\ Len(r.S.list) = Len(loop_list) + 1
                /\ ListUnits(r.S.list) = ListUnits(loop_list) \cup {Mex(loop_list)}
                /\ \E i \in 1..Len(r.S.list) :
                      r.S.list[i] = [unit |-> Mex(loop_list), handle |-> r.handle])

\* C9: from every reachable state of a running controller and for every unit number, add on
\* a unit number in the list returns INVALID_PARAMETER and changes nothing
\* (whatever the firmware would refuse); add on a unit number not in the list,
\* when the firmware refuses nothing, returns a new child with exactly that
\* unit number: one more list entry, the child's interfaces and state carry it.
C9_AddByUnitNumber ==
    ctl = "installed" => \A unit_number \in Units, F \in AddFaultSets :
        With(add(CtlState, FALSE, unit_number, F), LAMBDA r :
            IF unit_number \in ListUnits(loop_list)
            THEN r.st = "err" /\ r.status = "INVALID_PARAMETER" /\ r.S = CtlState
            ELSE (F = {} /\ FwFreshHandle(protos) # NullHandle) =>
                    /\ r.st = "ok" /\ r.tried = {unit_number}
                    /\ Len(r.S.list) = Len(loop_list) + 1
                    /\ ListUnits(r.S.list) = ListUnits(loop_list) \cup {unit_number}
                    /\ \E i \in 1..Len(r.S.list) :
                          r.S.list[i] = [unit |-> unit_number, handle |-> r.handle]
                    /\ r.S.db[r.handle] = Range(ChildProtocols(unit_number))
                    /\ r.S.ctxs[r.handle].c.unit_number = unit_number)

\* An add on the unit number of the second of two children, refused.
C9_Witness ==
    /\ ret.op = "add" /\ ret.status = "INVALID_PARAMETER" /\ ret.tried = {}
    /\ Len(loop_list) = 2 /\ loop_list[2].unit = ret.unit

\* What find reports: its status and the handle it stores.
FindResult(S, unit_number) ==
    With(find(S, FALSE, unit_number), LAMBDA r : <<r.status, r.handle>>)

\* C10: from every reachable state of a running controller and every unit number N not in
\* the list: when add(N) succeeds and remove of the handle it returned
\* succeeds, find(N) returns NOT_FOUND and find of every other unit number
\* returns what it returned before the add.
C10_AddRemoveFind ==
    ctl = "installed" => \A N \in Units \ ListUnits(loop_list) :
        With(add(CtlState, FALSE, N, {}), LAMBDA a :
            a.st = "ok" =>
                With(remove(a.S, FALSE, a.handle, {}, "intact"), LAMBDA r :
                    r.st = "ok" =>
                        /\ find(r.S, FALSE, N).status = "NOT_FOUND"
                        /\ \A M \in Units \ {N} :
                              FindResult(r.S, M) = FindResult(CtlState, M)))

\* A remove that succeeded on a unit number find no longer finds, with another
\* child left in the list.
C10_Witness ==
    /\ ret.op = "remove" /\ ret.status = "SUCCESS"
    /\ loop_list # <<>>
    /\ find(CtlState, FALSE, ret.unit).status = "NOT_FOUND"

\* The arrays of distinct children of the list that stop is given.
StopArrays(list) ==
    {children \in SeqsUpTo(ListHandles(list), MaxStop) :
        \A i, j \in 1..Len(children) : children[i] = children[j] => i = j}

\* What C20 asks of the result r of stop(children) called in state S when the
\* k-th remove is the first that fails (k = Len(children) + 1: none fails).
StopOutcome(S, children, Fs, ub, r, k) ==
    /\ \A i \in 1..(k - 1) : children[i] \notin ListHandles(r.S.list)
    /\ \A i \in k..Len(children) :
          /\ children[i] \in ListHandles(r.S.list)
          /\ Range(ChildProtocols(UnitOf(S.list, children[i]))) \subseteq r.S.db[children[i]]
    /\ r.S.list = SelectSeq(S.list, LAMBDA e : \A i \in 1..(k - 1) : children[i] # e.handle)
    /\ k <= Len(children) =>
          With(stop(S, FALSE, SubSeq(children, 1, k - 1), Fs, ub), LAMBDA before :
              /\ before.st = "ok"
              /\ With(remove(before.S, FALSE, children[k], Fs[k], ub), LAMBDA failing :
                     failing.st = "err" /\ r.status = failing.status /\ r.handle = children[k]))

\* C20: driver-binding stop removes the given children in array order and
\* stops at the first failing remove.  From every reachable state of a running
\* controller, for every array of distinct children of the list and every
\* refusal the firmware may make during one of the removes: when stop returns
\* SUCCESS every given child has left the list; when it returns an error, the
\* status is the one of the first failing remove, every child before it has
\* left the list, the failing child and every later child are still in the list
\* with their three interfaces installed, and the rest of the list is untouched.
C20_StopStopsAtFirstFailure ==
    ctl = "installed" =>
        \A children \in StopArrays(loop_list), bad \in 0..MaxStop, Fbad \in StopFaults,
           ub \in UbOutcomes :
            bad <= Len(children) =>
                LET Fs == [i \in 1..Len(children) |-> IF i = bad THEN Fbad ELSE {}]
                IN  With(stop(CtlState, FALSE, children, Fs, ub), LAMBDA r :
                        CASE r.st = "ok" ->
                                /\ r.status = "SUCCESS"
                                /\ StopOutcome(CtlState, children, Fs, ub, r, Len(children) + 1)
                          [] r.st = "err" ->
                                /\ r.status # "SUCCESS"
                                /\ \E k \in 1..Len(children) :
                                      StopOutcome(CtlState, children, Fs, ub, r, k)
                          [] OTHER -> TRUE)

\* A stop that returned the refusal of a remove: the failing child is in the
\* list with its interfaces, and another child's handle has been emptied.
C20_Witness ==
    /\ ret.op = "stop" /\ ret.status = "ACCESS_DENIED"
    /\ ret.handle \in ListHandles(loop_list)
    /\ Range(ChildProtocols(UnitOf(loop_list, ret.handle))) \subseteq protos[ret.handle]
    /\ \E h \in ChildHandles \ ListHandles(loop_list) : h < ret.handle /\ protos[h] = {}

\* What C21 asks of the result r of a teardown started in state S, of which the
\* k highest-numbered children were uninstalled before it stopped.
TeardownOutcome(S, r, k) ==
    LET n == Len(S.list) IN
    /\ r.S.list = SubSeq(S.list, 1, n - k)
    /\ \A i \in (n - k + 1)..n : r.S.db[S.list[i].handle] = {}
    /\ \A i \in 1..(n - k) :
          Range(ChildProtocols(S.list[i].unit)) \subseteq r.S.db[S.list[i].handle]
    /\ \A i \in 1..(n - k), j \in (n - k + 1)..n : S.list[i].unit < S.list[j].unit

\* C21: remove_children uninstalls the children from the highest unit number
\* downwards and stops at the first failure.  From every reachable state of a
\* running controller, with the uninstall of any one child (or of none) refused
\* by the firmware: on success the list is empty and no child handle carries an
\* interface; on failure the call returns the error of the failing uninstall,
\* the list is the one before the call without the children uninstalled so far
\* (all of them with higher unit numbers than the failing child, which is still
\* listed with its interfaces), and uninstall_loop_control returns that error
\* with the controller's own interfaces still installed.
C21_RemoveChildrenStopsAtFirstFailure ==
    ctl = "installed" =>
        \A bad \in {NullHandle} \cup ChildHandles, Fbad \in StopFaults, ub \in UbOutcomes :
            LET Fby == [h \in ChildHandles |-> IF h = bad THEN Fbad ELSE {}]
            IN  With(remove_children(CtlState, Fby, ub), LAMBDA r :
                    CASE r.st = "ok" ->
                            /\ r.status = "SUCCESS" /\ r.S.list = <<>>
                            /\ TeardownOutcome(CtlState, r, Len(loop_list))
                      [] r.st = "err" ->
                            /\ r.status # "SUCCESS"
                            /\ r.S.list # <<>> /\ Last(r.S.list).handle = bad
                            /\ r.status = uninstall_loopback(
                                              [r.S EXCEPT !.ctxs = CtlState.ctxs,
                                                          !.opened = CtlState.opened],
                                              bad, Fbad, ub).status
                            /\ \E k \in 0..(Len(loop_list) - 1) : TeardownOutcome(CtlState, r, k)
                            /\ With(uninstall_loop_control(CtlState, FALSE, Fby, {}, ub),
                                    LAMBDA u :
                                   /\ u.st = "err" /\ u.status = r.status /\ u.S = r.S
                                   /\ u.S.db[BusHandle] = protos[BusHandle]
                                   /\ Range(CtlProtocols) \subseteq u.S.db[BusHandle])
                      [] OTHER -> TRUE)

\* An unload that failed at a child after it had uninstalled a higher one.
C21_Witness ==
    /\ ret.op = "unload" /\ ret.status = "ACCESS_DENIED" /\ ctl = "installed"
    /\ loop_list # <<>> /\ Last(loop_list).handle = ret.handle
    /\ Range(ChildProtocols(Last(loop_list).unit)) \subseteq protos[ret.handle]
    /\ Range(CtlProtocols) \subseteq protos[BusHandle]
    /\ \E h \in ChildHandles \ ListHandles(loop_list) : protos[h] = {}

\* C35: between the operations of the controller, every child in the list holds
\* an open by-child-controller reference to the loop-control interface of the
\* parent; in particular the reference is open again after a remove whose
\* uninstall failed.
C35_ParentBackEdgeOpen ==
    ctl # "panicked" => \A i \in 1..Len(loop_list) : loop_list[i].handle \in opened

----------------------------------------------------------------------------
(* Claims on the patch planner (SpecAttach). *)

\* The table is contiguous from sector `from`: each item starts where the one
\* before it ends.
ContiguousFrom(table, from) ==
    \A i \in 1..Len(table) :
        table[i].start_sector = IF i = 1 THEN from
                                ELSE table[i - 1].start_sector + table[i - 1].num_sectors

\* The directory blocks that hold a patched record
PatchedBlocks(records) ==
    {records[i].record_position \div ISO_BLOCK_SIZE : i \in 1..Len(records)}

\* C22: the table the planner hands to set_mapping_table, sorted by
\* start_sector, is contiguous from sector 0.  Its first part covers
\* [0, total_image_sectors) exactly with File segments of the image that map
\* each sector to itself and with one Pool block of 4 sectors (a pool of 2048
\* bytes, from its sector 0) at each directory block that holds a patched
\* record, wherever those blocks lie; the rest is the list of appended items, in
\* the order they were appended, contiguous from total_image_sectors.
C22_PlannedTableContiguous ==
    plan.call.op = "set_mapping_table" =>
        LET table == sort_by_start_sector(plan.call.table)
            total == plan.image.file_size \div SECTOR_SIZE
        IN  /\ ContiguousFrom(table, 0)
            /\ \E k \in 1..Len(table) :
                  /\ table[k].start_sector + table[k].num_sectors = total
                  /\ \A i \in 1..k :
                        \/ /\ table[i].target = [kind |-> "File", id |-> ImageFile]
                           /\ table[i].target_start_sector = table[i].start_sector
                           /\ table[i].num_sectors > 0
                        \/ /\ table[i].target.kind = "LoopPool"
                           /\ table[i].num_sectors = SectorsPerBlock
                           /\ table[i].target_start_sector = 0
                           /\ plan.L.pools[table[i].target.id] = ISO_BLOCK_SIZE
                  /\ {table[i].start_sector : i \in {j \in 1..k : table[j].target.kind = "LoopPool"}}
                        = {b * SectorsPerBlock : b \in PatchedBlocks(plan.L.patch_record_list)}
                  /\ SubSeq(table, k + 1, Len(table)) = plan.L.append_item_list
                  /\ ContiguousFrom(plan.L.append_item_list, total)

\* A table with a Pool block at sector 0, one at the last block of the image,
\* the File segment between them and appended items.
C22_Witness ==
    /\ plan.call.op = "set_mapping_table"
    /\ plan.image.file_size = 18 * ISO_BLOCK_SIZE
    /\ Len(plan.call.table) >= 3
    /\ plan.call.table[1] = PoolItem(plan.call.table[1].target.id, 0, SectorsPerBlock, 0)
    /\ plan.call.table[2] = FileItem(ImageFile, SectorsPerBlock, 16 * SectorsPerBlock,
                                     SectorsPerBlock)
    /\ plan.call.table[3] = PoolItem(plan.call.table[3].target.id, 17 * SectorsPerBlock,
                                     SectorsPerBlock, 0)
    /\ Len(plan.L.append_item_list) = 4

\* The positions of the Replace actions in a sequence of actions
ReplaceAt(actions) == {i \in 1..Len(actions) : actions[i].kind = "Replace"}

\* C23: for a file matched by one or more rules, the planner folds the actions
\* of the matching rules, taken in rule order, into (replace, appends): replace
\* is the last Replace of them (none when there is no Replace) and appends are
\* exactly the Append and MetaCpio actions after that Replace, in order (all
\* of them when there is no Replace).
C23_LastReplaceWins ==
    plan.L.fold.actions # <<>> =>
        LET actions == plan.L.fold.actions
            last == IF ReplaceAt(actions) = {} THEN 0 ELSE LastOf(ReplaceAt(actions))
        IN  /\ \E m \in MatchSets : m # {} /\ actions = matched_actions(plan.patch, m, 1)
            /\ plan.L.fold.replace = IF last = 0 THEN NoAction ELSE actions[last]
            /\ plan.L.fold.appends = SubSeq(actions, last + 1, Len(actions))

\* A file matched an Append, then a Replace followed by a MetaCpio: the Append
\* is gone, the MetaCpio is kept.
C23_Witness ==
    /\ plan.L.fold.actions = <<AppendAction(1), ReplaceAction(3), MetaCpio>>
    /\ plan.L.fold.replace = ReplaceAction(3)
    /\ plan.L.fold.appends = <<MetaCpio>>
    /\ plan.call.op = "set_mapping_table"

\* C24: when the image is detected as ISO9660, the call that activates the
\* loopback device passes read_only = true whatever the caller's flag is, on
\* the unpatched path (set_file) and on the patched path (set_mapping_table),
\* and set_media with that flag leaves the media read-only.
C24_IsoForcesReadOnly ==
    (ISO9660_new(plan.image) /\ plan.call.op \in {"set_file", "set_mapping_table"}) =>
        /\ plan.call.read_only
        /\ set_media(dev, pools, plan.call.read_only, <<FileItem(1, 0, 2, 0)>>,
                     overflow_checks).c.read_only

\* A patched ISO9660 image attached by a caller that did not ask for read-only.
C24_Witness ==
    /\ ISO9660_new(plan.image) /\ ~plan.read_only
    /\ plan.call.op = "set_mapping_table" /\ plan.status = "SUCCESS"
    /\ plan.L.patch_record_list # <<>>

\* C36: each patch record addresses the appended region of its file.  The k-th
\* matched file appends a File item and a Pool item, in this order; the new
\* extent LBA of its record times the sectors of a block is the start sector of
\* the File item, and the new extent size is the bytes of the File item plus
\* bytes of the Pool item, at most the whole pool.
C36_RecordAddressesRegion ==
    \A k \in 1..Len(plan.L.patch_record_list) :
        With(plan.L.append_item_list[2 * k - 1], LAMBDA file_item :
        With(plan.L.append_item_list[2 * k], LAMBDA pool_item :
            /\ file_item.target.kind = "File" /\ pool_item.target.kind = "LoopPool"
            /\ plan.L.patch_record_list[k].new_extent_lba * SectorsPerBlock
                   = file_item.start_sector
            /\ plan.L.patch_record_list[k].new_extent_size
                   >= file_item.num_sectors * SECTOR_SIZE
            /\ plan.L.patch_record_list[k].new_extent_size
                   <= (file_item.num_sectors + pool_item.num_sectors) * SECTOR_SIZE))

----------------------------------------------------------------------------
(* Claims on the ISO9660 reader (SpecIso). *)

\* What the scan of the volume descriptors is to return from descriptor i on,
\* when every descriptor with a wrong identifier or a wrong version ends it
RECURSIVE StrictScan(_, _)
StrictScan(vds, i) ==
    IF i > Len(vds) THEN [status |-> "DEVICE_ERROR", position |-> 0]
    ELSE IF ~vds[i].cd001 \/ vds[i].vd_ver # 1 THEN [status |-> "ABORTED", position |-> 0]
    ELSE IF vds[i].vd_type = 255 THEN [status |-> "NOT_FOUND", position |-> 0]
    ELSE IF vds[i].vd_type = 1
    THEN [status |-> "SUCCESS", position |-> (16 + i - 1) * ISO_BLOCK_SIZE]
    ELSE StrictScan(vds, i + 1)

\* C37: find_pvd_position returns ABORTED at the first descriptor, from block
\* 16 on, whose identifier is not CD001 or whose version is not 1, else the
\* byte position of the first descriptor of type 1, or NOT_FOUND when a
\* descriptor of type 255 comes first; ISO9660::new succeeds only on an image
\* whose block 16 has the identifier CD001 and the version 1.
C37_DescriptorScan ==
    /\ iso.new = "SUCCESS" => iso.vds[1].cd001 /\ iso.vds[1].vd_ver = 1
    /\ iso.pvd.status # "none" => iso.pvd = StrictScan(iso.vds, 1)

\* C38: the walk never calls walk_record on a record that crosses the end of
\* its 2048-byte block: a record it visits at in-block offset o with size byte
\* s has o + s <= 2048.
C38_NoRecordAcrossBlocks ==
    iso.w.visit.some =>
        (iso.w.visit.position % ISO_BLOCK_SIZE) + iso.w.visit.size <= ISO_BLOCK_SIZE

----------------------------------------------------------------------------
(* Claims on shell-split (SpecSplit). *)

\* The first NUL of t, Len(t) + 1 when it has none
FirstNul(t) ==
    IF \E i \in 1..Len(t) : t[i] = NUL
    THEN CHOOSE i \in 1..Len(t) : t[i] = NUL /\ \A j \in 1..(i - 1) : t[j] # NUL
    ELSE Len(t) + 1

\* Whether a quote is open behind element i - 1 of t, a caret escaping the
\* element after it
RECURSIVE QuoteOpen(_, _, _)
QuoteOpen(t, i, open) ==
    IF i > Len(t) THEN open
    ELSE IF t[i] = CARET THEN QuoteOpen(t, i + 2, open)
    ELSE IF t[i] = QUOTE THEN QuoteOpen(t, i + 1, ~open)
    ELSE QuoteOpen(t, i + 1, open)

\* The argument yielded last holds no NUL and nothing at or behind the first
\* NUL of the command line
ArgBeforeNul ==
    split.out.some =>
        /\ \A i \in 1..Len(split.out.raw_arg) : split.out.raw_arg[i] # NUL
        /\ split.out.begin + Offset(split.out.raw_arg, Len(split.out.raw_arg) + 1)
              <= Offset(split.command_line, FirstNul(split.command_line))

\* The argument yielded last has every quote closed
ArgQuotesClosed == split.out.some => ~QuoteOpen(split.out.raw_arg, 1, FALSE)

\* After a None, next() returns None
NoneIsLast == split.nones > 0 => ~next(split.command_line, split.it).arg.some

\* C25: no argument that Split yields holds a NUL or an element at or behind the
\* first NUL of the command line, no argument with an unclosed quote is yielded,
\* and once next() has returned None it returns None ever after.
C25_SplitStopsAtEnd == ArgBeforeNul /\ ArgQuotesClosed /\ NoneIsLast

\* C26: for every argument that Split yields, decode() does not fail and returns
\* the elements that decode_to_owned() / iter() return.
C26_DecodeEqualsIter ==
    split.dec.done =>
        /\ split.dec.decoded # SlicePanic
        /\ split.dec.decoded = split.dec.owned

----------------------------------------------------------------------------
(* Claims on the multi-protocol helpers (SpecProto). *)

GuidsOf(S) == {p[1] : p \in S}

\* The firmware refuses the install of pairs[k] once pairs[1..k-1] are on the target.
InstallRefused(k) ==
    \/ <<"install", pt.pairs[k][1]>> \in pt.F
    \/ pt.pairs[k][1] \in GuidsOf({pt.pairs[j] : j \in 1..(k - 1)})
    \/ pt.handle # NullHandle /\ pt.pairs[k][1] \in GuidsOf(pt.before[pt.handle])
    \/ pt.handle # NullHandle /\ pt.before[pt.handle] = {}
    \/ pt.handle = NullHandle /\ FwFreshHandle(pt.before) = NullHandle

\* The firmware refuses the uninstall of pairs[k] once pairs[k+1..] are off the handle.
UninstallRefused(k) ==
    \/ <<"uninstall", pt.pairs[k][1]>> \in pt.F
    \/ pt.pairs[k] \notin pt.before[pt.handle] \ {pt.pairs[j] : j \in (k + 1)..Len(pt.pairs)}

\* C5: when install_multiple_protocols returns an error, no handle carries an
\* interface the call attempted (what it installed before the failure is
\* uninstalled again: the handle database is the one before the call), and the
\* error names the first pair, in list order, whose install the firmware refused.
C5_InstallAtomic ==
    (pt.phase = "done" /\ pt.op = "install" /\ pt.st = "err") =>
        /\ protos = pt.before
        /\ pt.handle # NullHandle => Range(pt.pairs) \cap protos[pt.handle] = {}
        /\ \E k \in 1..Len(pt.pairs) :
              /\ pt.failed = pt.pairs[k]
              /\ InstallRefused(k)
              /\ \A j \in 1..(k - 1) : ~InstallRefused(j)

\* A failed install on a fresh handle whose third pair was refused after two
\* installs succeeded.
C5_Witness ==
    /\ pt.phase = "done" /\ pt.op = "install" /\ pt.st = "err"
    /\ pt.handle = NullHandle /\ Len(pt.pairs) = 3
    /\ pt.failed = pt.pairs[3] /\ ~InstallRefused(1) /\ ~InstallRefused(2)

\* C6: when uninstall_multiple_protocols returns an error, every handle carries
\* exactly the interfaces it had before the call (what the call removed is
\* installed again), and the error names the pair whose uninstall the firmware
\* refused: the last one in list order, the first one the call reaches.
C6_UninstallAtomic ==
    (pt.phase = "done" /\ pt.op = "uninstall" /\ pt.st = "err") =>
        /\ protos = pt.before
        /\ \E k \in 1..Len(pt.pairs) :
              /\ pt.failed = pt.pairs[k]
              /\ UninstallRefused(k)
              /\ \A j \in (k + 1)..Len(pt.pairs) : ~UninstallRefused(j)

\* A failed uninstall of three installed pairs whose first pair was refused
\* after the other two had been removed.
C6_Witness ==
    /\ pt.phase = "done" /\ pt.op = "uninstall" /\ pt.st = "err"
    /\ Len(pt.pairs) = 3 /\ Range(pt.pairs) \subseteq protos[pt.handle]
    /\ pt.failed = pt.pairs[1] /\ ~UninstallRefused(2) /\ ~UninstallRefused(3)

====
